---- MODULE Spec2Model ----
(***************************************************************************)
(* Model of specgraph: the artifact store (utils/file_manager.py) and the  *)
(* four pipelines Specify, Plan, Tasks and Clarify (workflows/*.py).       *)
(*                                                                         *)
(* Text is a sequence of characters; a character is a one-character        *)
(* string, except the non-ASCII characters, which are written by their     *)
(* code point ("U+00C9").                                                  *)
(*                                                                         *)
(* Seven specifications:                                                   *)
(*   SlugSpec   slugify applied to bounded input texts                     *)
(*   StoreSpec  get_next_spec_number, create_spec_directory and            *)
(*              find_latest_spec applied to arbitrary store contents       *)
(*   Spec       sequential pipeline invocations from an absent or empty    *)
(*              store                                                      *)
(*   TamperSpec the same invocations from a store edited by hand           *)
(*   LiveSpec   the invocations with every started pipeline run on to its  *)
(*              end                                                        *)
(*   RaceSpec   two Specify invocations saving at the same time            *)
(*   CliSpec    the clarify command and its two Clarify invocations        *)
(***************************************************************************)
EXTENDS Integers, Sequences, FiniteSets, TLC

VARIABLES
    fs,           \* the filesystem under the store root ./specs
    pre,          \* the filesystem when the current invocation started
    pc,           \* position of the running pipeline: idle / node name / done
    wf,           \* the pipeline that runs: specify / plan / tasks / clarify
    st,           \* the pipeline state (SpecifyState, PlanState, ...)
    steps,        \* the nodes the current invocation has executed, in order
    gatewayCalls, \* Model Gateway calls made by the current invocation
    gatewayLog,   \* those calls: node, prompt inputs, reply or failure
    outcome,      \* how the last invocation ended
    runs,         \* pipeline invocations started so far
    fmOp,         \* last file_manager call and what it returned (StoreSpec)
    slugIn,       \* text handed to slugify (SlugSpec)
    slugOut,      \* slugify(slugIn)
    slugTwice,    \* slugify(slugify(slugIn))
    slugPc,       \* SlugSpec position
    race,         \* two concurrent Specify saves and their writes (RaceSpec)
    cli           \* the clarify command: its pass, the questions it showed,
                  \* the answers it collected, what it printed (CliSpec)

vars == <<fs, pre, pc, wf, st, steps, gatewayCalls, gatewayLog, outcome, runs, fmOp,
          slugIn, slugOut, slugTwice, slugPc, race, cli>>

storeVars ==
    <<fs, pre, pc, wf, st, steps, gatewayCalls, gatewayLog, outcome, runs, fmOp, race,
      cli>>

auxVars == <<wf, steps, gatewayLog>>

slugVars == <<slugIn, slugOut, slugTwice, slugPc>>

(***************************************************************************)
(* Bounds                                                                  *)
(***************************************************************************)
MaxTail == 2

MaxInitEntries == 3

MaxOps == 2

MaxRuns == 3

(***************************************************************************)
(* Characters                                                              *)
(***************************************************************************)
LowerLetters ==
    <<"a","b","c","d","e","f","g","h","i","j","k","l","m",
      "n","o","p","q","r","s","t","u","v","w","x","y","z">>

UpperLetters ==
    <<"A","B","C","D","E","F","G","H","I","J","K","L","M",
      "N","O","P","Q","R","S","T","U","V","W","X","Y","Z">>

DigitChars == <<"0","1","2","3","4","5","6","7","8","9">>

Range(s) == { s[i] : i \in 1..Len(s) }

\* what \s matches in a str pattern: ASCII whitespace and Unicode spaces
\* (U+00A0 is NO-BREAK SPACE)
Whitespace == {" ", "\t", "\n", "U+00A0"}

Min(a, b) == IF a < b THEN a ELSE b

\* str.lower() of one character; U+00C9 (E acute) lowers to U+00E9,
\* U+0130 (I with dot above) lowers to "i" followed by U+0307
LowerChar(c) ==
    IF c \in Range(UpperLetters)
    THEN <<LowerLetters[CHOOSE i \in 1..26 : UpperLetters[i] = c]>>
    ELSE IF c = "U+00C9" THEN <<"U+00E9">>
    ELSE IF c = "U+0130" THEN <<"i", "U+0307">>
    ELSE <<c>>

RECURSIVE Lower(_)
Lower(s) == IF s = <<>> THEN <<>> ELSE LowerChar(Head(s)) \o Lower(Tail(s))

(***************************************************************************)
(* slugify                                                                 *)
(***************************************************************************)
SlugMaxLen == 50

SlugChars == Range(LowerLetters) \cup Range(DigitChars) \cup {"-"}

\* re.sub(r"[\s_]+", "-", text)
RECURSIVE ReplaceSpaceRuns(_)
ReplaceSpaceRuns(s) ==
    IF s = <<>> THEN <<>>
    ELSE IF Head(s) \in Whitespace \cup {"_"}
         THEN IF Len(s) > 1 /\ s[2] \in Whitespace \cup {"_"}
              THEN ReplaceSpaceRuns(Tail(s))
              ELSE <<"-">> \o ReplaceSpaceRuns(Tail(s))
         ELSE <<Head(s)>> \o ReplaceSpaceRuns(Tail(s))

\* re.sub(r"[^a-z0-9-]", "", text)
IsSlugChar(c) == c \in SlugChars

RemoveNonSlugChars(s) == SelectSeq(s, IsSlugChar)

\* re.sub(r"-+", "-", text)
RECURSIVE CollapseHyphens(_)
CollapseHyphens(s) ==
    IF s = <<>> THEN <<>>
    ELSE IF Head(s) = "-" /\ Len(s) > 1 /\ s[2] = "-"
         THEN CollapseHyphens(Tail(s))
         ELSE <<Head(s)>> \o CollapseHyphens(Tail(s))

\* text.strip("-")
StripHyphens(s) ==
    LET keep == { i \in 1..Len(s) : s[i] # "-" }
    IN  IF keep = {} THEN <<>>
        ELSE LET lo == CHOOSE i \in keep : \A j \in keep : i <= j
                 hi == CHOOSE i \in keep : \A j \in keep : i >= j
             IN  SubSeq(s, lo, hi)

\* slugify cutting one character late: text[:51]
Truncate_OffByOne(s) == SubSeq(s, 1, Min(Len(s), SlugMaxLen + 1))

\* text[:50]
Truncate(s) == SubSeq(s, 1, Min(Len(s), SlugMaxLen))

\* each statement of slugify assigns text anew; the chain of singleton sets
\* binds every intermediate text to its value once
slugify(text) ==
    CHOOSE slug \in
        { Truncate(stripped) : stripped \in
        { StripHyphens(collapsed) : collapsed \in
        { CollapseHyphens(cleaned) : cleaned \in
        { RemoveNonSlugChars(hyphenated) : hyphenated \in
        { ReplaceSpaceRuns(lowered) : lowered \in { Lower(text) } } } } } } : TRUE

(***************************************************************************)
(* The store: the filesystem under ./specs.                                *)
(*   root   the store root exists                                          *)
(*   dirs   names of the directories in the store root                     *)
(*   plain  names of the plain files in the store root                     *)
(*   files  the files inside the directories: [dir, name, content]         *)
(***************************************************************************)
None == <<"None">>

IsDigit(c) == c \in Range(DigitChars)

DigitValue(c) == (CHOOSE i \in 1..10 : DigitChars[i] = c) - 1

\* int(match.group(1))
RECURSIVE ParseInt(_)
ParseInt(ds) ==
    IF ds = <<>> THEN 0
    ELSE ParseInt(SubSeq(ds, 1, Len(ds) - 1)) * 10 + DigitValue(ds[Len(ds)])

\* length of the digit run a name starts with
RECURSIVE DigitRun(_)
DigitRun(name) ==
    IF name # <<>> /\ IsDigit(Head(name)) THEN 1 + DigitRun(Tail(name)) ELSE 0

\* re.match(r"^(\d+)-", name): the match succeeds
SpecNumberMatches(name) ==
    LET k == DigitRun(name)
    IN  k >= 1 /\ Len(name) > k /\ name[k + 1] = "-"

\* match.group(1) as an integer
MatchedNumber(name) == ParseInt(SubSeq(name, 1, DigitRun(name)))

MaxOf(S) == CHOOSE n \in S : \A m \in S : n >= m

\* get_next_spec_number returning the highest number itself
get_next_spec_number_NoIncrement(f) ==
    IF ~f.root THEN 1
    ELSE IF f.dirs = {} THEN 1
    ELSE LET numbers == { MatchedNumber(d) : d \in { e \in f.dirs : SpecNumberMatches(e) } }
         IN  IF numbers # {} THEN MaxOf(numbers) ELSE 1

\* get_next_spec_number counting the directories: len(existing_specs) + 1
get_next_spec_number_Count(f) ==
    IF ~f.root THEN 1 ELSE Cardinality(f.dirs) + 1

get_next_spec_number(f) ==
    IF ~f.root THEN 1
    ELSE IF f.dirs = {} THEN 1
    ELSE LET numbers == { MatchedNumber(d) : d \in { e \in f.dirs : SpecNumberMatches(e) } }
         IN  IF numbers # {} THEN MaxOf(numbers) + 1 ELSE 1

RECURSIVE DecimalDigits(_)
DecimalDigits(n) ==
    IF n < 10 THEN <<DigitChars[n + 1]>>
    ELSE Append(DecimalDigits(n \div 10), DigitChars[(n % 10) + 1])

\* the number without zero padding: "{spec_number}" for "{spec_number:03d}"
Format03d_NoPad(n) == DecimalDigits(n)

\* f"{spec_number:03d}"
Format03d(n) ==
    LET ds == DecimalDigits(n)
    IN  IF Len(ds) >= 3 THEN ds ELSE [i \in 1..(3 - Len(ds)) |-> "0"] \o ds

\* mkdir without exist_ok: raises when the directory is there already
MkdirRaises_NoExistOk(f, name) == name \in f.plain \cup f.dirs

\* Path.mkdir(parents=True, exist_ok=True) of a directory of the store
\* root: raises FileExistsError when a plain file has that name
MkdirRaises(f, name) == name \in f.plain

\* mkdir that leaves the new directory alone in the store
Mkdir_Replaces(f, name) == [f EXCEPT !.root = TRUE, !.dirs = {name}]

Mkdir(f, name) == [f EXCEPT !.root = TRUE, !.dirs = f.dirs \cup {name}]

\* create_spec_directory returning the path without creating the directory
create_spec_directory_NoMkdir(feature_name, f) ==
    LET f1          == [f EXCEPT !.root = TRUE]
        spec_number == get_next_spec_number(f1)
        dir_name    == Format03d(spec_number) \o <<"-">> \o slugify(feature_name)
    IN  [fs |-> f1, raised |-> FALSE, path |-> dir_name, number |-> spec_number]

\* create_spec_directory naming the directory by the slug alone
create_spec_directory_SlugOnly(feature_name, f) ==
    LET f1          == [f EXCEPT !.root = TRUE]
        spec_number == get_next_spec_number(f1)
        dir_name    == slugify(feature_name)
    IN  IF MkdirRaises(f1, dir_name)
        THEN [fs |-> f1, raised |-> TRUE, path |-> None, number |-> 0]
        ELSE [fs |-> Mkdir(f1, dir_name),
              raised |-> FALSE,
              path |-> dir_name,
              number |-> spec_number]

\* create_spec_directory: what the call returns, or that it raised, and the
\* filesystem it leaves
create_spec_directory(feature_name, f) ==
    LET f1          == [f EXCEPT !.root = TRUE]
        spec_number == get_next_spec_number(f1)
        slug        == slugify(feature_name)
        dir_name    == Format03d(spec_number) \o <<"-">> \o slug
    IN  IF MkdirRaises(f1, dir_name)
        THEN [fs |-> f1, raised |-> TRUE, path |-> None, number |-> 0]
        ELSE [fs |-> Mkdir(f1, dir_name),
              raised |-> FALSE,
              path |-> dir_name,
              number |-> spec_number]

\* save_markdown removing the other files of the directory
save_markdown_DropsSiblings(content, dir, name, f) ==
    IF MkdirRaises(f, dir)
    THEN [fs |-> f, raised |-> TRUE]
    ELSE LET f1 == Mkdir(f, dir)
             kept == { x \in f1.files : x.dir # dir }
         IN  [fs |-> [f1 EXCEPT !.files =
                         kept \cup {[name |-> name, content |-> content, dir |-> dir]}],
              raised |-> FALSE]

\* save_markdown(content, dir / name)
save_markdown(content, dir, name, f) ==
    IF MkdirRaises(f, dir)
    THEN [fs |-> f, raised |-> TRUE]
    ELSE LET f1 == Mkdir(f, dir)
             kept == { x \in f1.files : ~(x.dir = dir /\ x.name = name) }
         IN  [fs |-> [f1 EXCEPT !.files =
                         kept \cup {[name |-> name, content |-> content, dir |-> dir]}],
              raised |-> FALSE]

\* a sort key that tells no directory from another
get_spec_number_Zero(name) == 0

\* get_spec_number, the sort key of find_latest_spec
get_spec_number(name) == IF SpecNumberMatches(name) THEN MatchedNumber(name) ELSE 0

\* find_latest_spec taking the lowest number: min() for max()
find_latest_spec_Min(f) ==
    IF ~f.root THEN {None}
    ELSE IF f.dirs = {} THEN {None}
    ELSE { d \in f.dirs : \A e \in f.dirs : get_spec_number(d) <= get_spec_number(e) }

\* find_latest_spec: max() returns the first maximal element in the order
\* iterdir() lists the directories, which the filesystem decides; the set
\* holds every value the call can return
find_latest_spec(f) ==
    IF ~f.root THEN {None}
    ELSE IF f.dirs = {} THEN {None}
    ELSE { d \in f.dirs : \A e \in f.dirs : get_spec_number(d) >= get_spec_number(e) }

(***************************************************************************)
(* The Specify pipeline (workflows/specify.py). An error message is a text *)
(* of one element, the message.                                            *)
(***************************************************************************)
MinDescriptionLen == 10

ErrEmpty == <<"Feature description cannot be empty">>

ErrTooShort == <<"Feature description is too short (minimum 10 characters)">>

SpecificationFile == "specification.md"

\* Path(), the path run_specify starts with
CurrentDir == <<".">>

\* str.strip()
Strip(s) ==
    LET keep == { i \in 1..Len(s) : s[i] \notin Whitespace }
    IN  IF keep = {} THEN <<>>
        ELSE LET lo == CHOOSE i \in keep : \A j \in keep : i <= j
                 hi == CHOOSE i \in keep : \A j \in keep : i >= j
             IN  SubSeq(s, lo, hi)

\* the state run_specify hands to the workflow
initial_state(feature_description) ==
    [spec_number |-> 0,
     feature_description |-> feature_description,
     specification |-> <<>>,
     spec_path |-> CurrentDir,
     error |-> None]

\* analyze_input measuring the description as given, without strip()
analyze_input_NoStrip(state) ==
    LET feature_desc == state.feature_description
    IN  IF feature_desc = <<>> THEN ErrEmpty
        ELSE IF Len(feature_desc) < MinDescriptionLen THEN ErrTooShort
        ELSE None

\* analyze_input: the error it returns
analyze_input(state) ==
    LET feature_desc == Strip(state.feature_description)
    IN  IF feature_desc = <<>> THEN ErrEmpty
        ELSE IF Len(feature_desc) < MinDescriptionLen THEN ErrTooShort
        ELSE None

\* state.get("error") is truthy
\* state.get("error") never truthy
HasError_Never(state) == FALSE

HasError(state) == state.error # None

\* should_continue: the node after analyze
should_continue(state) == IF HasError(state) THEN "done" ELSE "generate"

(***************************************************************************)
(* Files of a directory of the store                                       *)
(***************************************************************************)
PlanFile == "plan.md"

TasksFile == "tasks.md"

\* spec_path / name
JoinPath(dir, name) == dir \o <<"/", name>>

\* Path.exists() of a file of a directory
FileExists(f, dir, name) == \E x \in f.files : x.dir = dir /\ x.name = name

\* Path.read_text()
ReadText(f, dir, name) == (CHOOSE x \in f.files : x.dir = dir /\ x.name = name).content

ErrNoSpecs == <<"No specifications found. Run 'acpctl specify' first.">>

ErrSpecFileNotFound(spec_file) ==
    <<"Specification file not found at ">> \o spec_file \o <<". Run 'acpctl specify' first.">>

ErrPlanFileNotFound(plan_file) ==
    <<"Plan file not found at ">> \o plan_file \o <<". Run 'acpctl plan' first.">>

(***************************************************************************)
(* The Plan pipeline (workflows/plan.py)                                   *)
(***************************************************************************)
\* the state run_plan hands to the workflow
plan_initial_state(technical_constraints) ==
    [specification |-> <<>>,
     spec_path |-> None,
     error |-> None,
     plan_file |-> None,
     technical_constraints |-> technical_constraints,
     plan |-> <<>>]

\* load_specification falling back on any directory that holds a
\* specification when the latest one does not
plan_load_specification_FallsBack(state, spec_path, f) ==
    LET holders == { d \in f.dirs : FileExists(f, d, SpecificationFile) }
        dir     == IF spec_path # None /\ FileExists(f, spec_path, SpecificationFile)
                   THEN spec_path
                   ELSE IF holders # {} THEN CHOOSE d \in holders : TRUE ELSE None
    IN  IF dir = None
        THEN [state EXCEPT !.error = ErrNoSpecs]
        ELSE [state EXCEPT !.spec_path = dir,
                           !.specification = ReadText(f, dir, SpecificationFile),
                           !.error = None]

\* load_specification of plan.py, given what find_latest_spec returned
plan_load_specification(state, spec_path, f) ==
    IF spec_path = None
    THEN [state EXCEPT !.error = ErrNoSpecs]
    ELSE IF ~FileExists(f, spec_path, SpecificationFile)
    THEN [state EXCEPT !.error = ErrSpecFileNotFound(JoinPath(spec_path, SpecificationFile))]
    ELSE [state EXCEPT !.spec_path = spec_path,
                       !.specification = ReadText(f, spec_path, SpecificationFile),
                       !.error = None]

\* should_continue of plan.py: the node after load
plan_should_continue(state) == IF HasError(state) THEN "done" ELSE "generate"

(***************************************************************************)
(* The Tasks pipeline (workflows/tasks.py)                                 *)
(***************************************************************************)
\* the state run_tasks hands to the workflow
tasks_initial_state ==
    [specification |-> <<>>,
     spec_path |-> None,
     error |-> None,
     plan |-> <<>>,
     tasks |-> <<>>,
     tasks_file |-> None]

\* load_plan reading a missing plan.md as the empty text
load_plan_PlanOptional(state, spec_path, f) ==
    IF spec_path = None
    THEN [state EXCEPT !.error = ErrNoSpecs]
    ELSE IF ~FileExists(f, spec_path, SpecificationFile)
    THEN [state EXCEPT !.error = ErrSpecFileNotFound(JoinPath(spec_path, SpecificationFile))]
    ELSE [state EXCEPT !.spec_path = spec_path,
                       !.specification = ReadText(f, spec_path, SpecificationFile),
                       !.plan = IF FileExists(f, spec_path, PlanFile)
                                THEN ReadText(f, spec_path, PlanFile) ELSE <<>>,
                       !.error = None]

\* load_plan testing plan.md before specification.md
load_plan_PlanFirst(state, spec_path, f) ==
    IF spec_path = None
    THEN [state EXCEPT !.error = ErrNoSpecs]
    ELSE IF ~FileExists(f, spec_path, PlanFile)
    THEN [state EXCEPT !.error = ErrPlanFileNotFound(JoinPath(spec_path, PlanFile))]
    ELSE IF ~FileExists(f, spec_path, SpecificationFile)
    THEN [state EXCEPT !.error = ErrSpecFileNotFound(JoinPath(spec_path, SpecificationFile))]
    ELSE [state EXCEPT !.spec_path = spec_path,
                       !.specification = ReadText(f, spec_path, SpecificationFile),
                       !.plan = ReadText(f, spec_path, PlanFile),
                       !.error = None]

\* load_plan taking the plan of another directory when the latest has none
load_plan_AnyPlan(state, spec_path, f) ==
    IF spec_path = None
    THEN [state EXCEPT !.error = ErrNoSpecs]
    ELSE IF ~FileExists(f, spec_path, SpecificationFile)
    THEN [state EXCEPT !.error = ErrSpecFileNotFound(JoinPath(spec_path, SpecificationFile))]
    ELSE IF \A d \in f.dirs : ~FileExists(f, d, PlanFile)
    THEN [state EXCEPT !.error = ErrPlanFileNotFound(JoinPath(spec_path, PlanFile))]
    ELSE LET d == IF FileExists(f, spec_path, PlanFile) THEN spec_path
                  ELSE CHOOSE e \in f.dirs : FileExists(f, e, PlanFile)
         IN  [state EXCEPT !.spec_path = spec_path,
                           !.specification = ReadText(f, spec_path, SpecificationFile),
                           !.plan = ReadText(f, d, PlanFile),
                           !.error = None]

\* load_plan, given what find_latest_spec returned
load_plan(state, spec_path, f) ==
    IF spec_path = None
    THEN [state EXCEPT !.error = ErrNoSpecs]
    ELSE IF ~FileExists(f, spec_path, SpecificationFile)
    THEN [state EXCEPT !.error = ErrSpecFileNotFound(JoinPath(spec_path, SpecificationFile))]
    ELSE IF ~FileExists(f, spec_path, PlanFile)
    THEN [state EXCEPT !.error = ErrPlanFileNotFound(JoinPath(spec_path, PlanFile))]
    ELSE [state EXCEPT !.spec_path = spec_path,
                       !.specification = ReadText(f, spec_path, SpecificationFile),
                       !.plan = ReadText(f, spec_path, PlanFile),
                       !.error = None]

\* should_continue of tasks.py: the node after load
tasks_should_continue(state) == IF HasError(state) THEN "done" ELSE "generate"

(***************************************************************************)
(* The Clarify pipeline (workflows/clarify.py). A Gateway reply is a text  *)
(* whose elements are characters, code fences and whole JSON documents;    *)
(* question and answer texts are single elements.                          *)
(***************************************************************************)
\* an Optional value that is not a text or a path
Nothing == [none |-> TRUE, value |-> <<>>]

Some(v) == [none |-> FALSE, value |-> v]

\* "not x" for an Optional list or dict: None and the empty one are falsy
Falsy(opt) == opt.none \/ DOMAIN opt.value = {}

\* a code fence is three backticks, written <fence> here
FenceJson == "<fence>json"

FenceMarkdown == "<fence>markdown"

Fence == "<fence>"

\* the elements in which "<fence>" occurs
FenceTokens == {Fence, FenceJson, FenceMarkdown}

\* str.find(sub, start) over elements: the first position from start on
\* holding one of subs, 0 when there is none (find returns -1)
Find(text, subs, start) ==
    IF \E i \in start..Len(text) : text[i] \in subs
    THEN CHOOSE i \in start..Len(text) :
            text[i] \in subs /\ \A j \in start..(i - 1) : text[j] \notin subs
    ELSE 0

IsSingleChar(c) ==
    c \in Whitespace \cup Range(LowerLetters) \cup Range(UpperLetters)
          \cup Range(DigitChars) \cup {"-", "_", "!", "/", "."}

\* what is left of an element of several characters that lost its last one
CutToken == "<cut>"

\* text[:-1]
DropLastChar(text) ==
    IF text = <<>> THEN <<>>
    ELSE IF IsSingleChar(text[Len(text)]) THEN SubSeq(text, 1, Len(text) - 1)
    ELSE Append(SubSeq(text, 1, Len(text) - 1), CutToken)

\* text[start:end] where end is what find returned: -1 cuts the last
\* character
SliceToFind(text, start, end) ==
    IF end = 0 THEN DropLastChar(SubSeq(text, start, Len(text)))
    ELSE SubSeq(text, start, end - 1)

\* what follows the three backticks inside a fence element
AfterBackticks(token) ==
    IF token = FenceJson THEN <<"json">>
    ELSE IF token = FenceMarkdown THEN <<"markdown">>
    ELSE <<>>

\* the text analyze hands to json.loads: the body of the first json
\* fence, else of the first fence, else the whole reply
extract_json(response_text) ==
    IF Find(response_text, {FenceJson}, 1) # 0
    THEN LET i == Find(response_text, {FenceJson}, 1)
             j == Find(response_text, FenceTokens, i + 1)
         IN  Strip(SliceToFind(response_text, i + 1, j))
    ELSE IF Find(response_text, FenceTokens, 1) # 0
    THEN LET i    == Find(response_text, FenceTokens, 1)
             j    == Find(response_text, FenceTokens, i + 1)
             rest == AfterBackticks(response_text[i])
                       \o SubSeq(response_text, i + 1, Len(response_text))
         IN  Strip(SliceToFind(rest, 1, IF j = 0 THEN 0 ELSE j - i + Len(AfterBackticks(response_text[i]))))
    ELSE response_text

Question(id, category, question) ==
    [id |-> id, category |-> category, question |-> question,
     context |-> "context", suggested_answer |-> "suggested"]

DocNoQuestions == "{\"questions\": []}"

DocTwoQuestions == "{\"questions\": [{\"id\": 1, ...}, {\"id\": 2, ...}]}"

DocNoQuestionsKey == "{\"items\": []}"

DocArray == "[1, 2]"

DocSixQuestions == "{\"questions\": [{\"id\": 1, ...}, ..., {\"id\": 6, ...}]}"

JsonDocuments ==
    {DocNoQuestions, DocTwoQuestions, DocNoQuestionsKey, DocArray, DocSixQuestions}

\* json.loads of a document
JsonValue(doc) ==
    CASE doc = DocNoQuestions ->
           [is_object |-> TRUE, has_questions |-> TRUE, questions |-> <<>>]
      [] doc = DocTwoQuestions ->
           [is_object |-> TRUE, has_questions |-> TRUE,
            questions |-> << Question(1, "Functional Scope", "Which formats?"),
                             Question(2, "Data Model", "Which fields?") >>]
      [] doc = DocNoQuestionsKey ->
           [is_object |-> TRUE, has_questions |-> FALSE, questions |-> <<>>]
      [] doc = DocArray ->
           [is_object |-> FALSE, has_questions |-> FALSE, questions |-> <<>>]
      [] doc = DocSixQuestions ->
           [is_object |-> TRUE, has_questions |-> TRUE,
            questions |-> [i \in 1..6 |-> Question(i, "Edge Cases", "Which limit?")]]

\* json.loads succeeds: the text is one JSON document, whitespace around it
\* allowed
JsonDecodes(text) == Len(Strip(text)) = 1 /\ Strip(text)[1] \in JsonDocuments

ErrParse == <<"Failed to parse questions from Claude response: ", "JSONDecodeError">>

ErrNoAnswers == <<"No answers provided to update specification">>

\* the state run_clarify hands to the workflow
clarify_initial_state(answers) ==
    [specification |-> <<>>,
     spec_path |-> None,
     error |-> None,
     questions |-> Nothing,
     answers |-> answers,
     updated_spec |-> <<>>]

\* load_specification of clarify.py, given what find_latest_spec returned
clarify_load_specification(state, spec_path, f) ==
    IF spec_path = None
    THEN [state EXCEPT !.error = ErrNoSpecs]
    ELSE IF ~FileExists(f, spec_path, SpecificationFile)
    THEN [state EXCEPT !.error = ErrSpecFileNotFound(JoinPath(spec_path, SpecificationFile))]
    ELSE [state EXCEPT !.spec_path = spec_path,
                       !.specification = ReadText(f, spec_path, SpecificationFile),
                       !.error = None]

\* analyze_and_generate_questions after the Gateway replied: the new state,
\* or that questions_data.get raised (AttributeError is not caught)
analyze_and_generate_questions(state, reply) ==
    LET response_text == extract_json(reply)
    IN  IF ~JsonDecodes(response_text)
        THEN [raised |-> FALSE, state |-> [state EXCEPT !.error = ErrParse]]
        ELSE LET questions_data == JsonValue(Strip(response_text)[1])
             IN  IF ~questions_data.is_object
                 THEN [raised |-> TRUE, state |-> state]
                 ELSE [raised |-> FALSE,
                       state |-> [state EXCEPT !.questions =
                                     Some(IF questions_data.has_questions
                                          THEN questions_data.questions ELSE <<>>)]]

\* should_continue_after_load
should_continue_after_load(state) == IF HasError(state) THEN "done" ELSE "analyze"

\* should_continue_after_analyze going on to update with any question list
should_continue_after_analyze_NoEmptyCheck(state) ==
    IF HasError(state) THEN "done"
    ELSE IF ~Falsy(state.answers) THEN "update"
    ELSE "done"

\* should_continue_after_analyze going on to update without looking at the
\* answers
should_continue_after_analyze_IgnoresAnswers(state) ==
    IF HasError(state) THEN "done"
    ELSE IF Falsy(state.questions) THEN "done"
    ELSE "update"

\* should_continue_after_analyze
should_continue_after_analyze(state) ==
    IF HasError(state) THEN "done"
    ELSE IF Falsy(state.questions) THEN "done"
    ELSE IF ~Falsy(state.answers) THEN "update"
    ELSE "done"

\* should_continue_after_update routing back to update
should_continue_after_update_Again(state) == IF HasError(state) THEN "done" ELSE "update"

\* should_continue_after_update
should_continue_after_update(state) == IF HasError(state) THEN "done" ELSE "save"

\* the loop of update_specification leaving at the first pair
qa_pairs_FirstOnly(questions, answers) ==
    LET matching == { i \in 1..Len(questions) : questions[i].id \in DOMAIN answers }
    IN  IF matching = {} THEN <<>>
        ELSE LET i == CHOOSE k \in matching : \A j \in matching : k <= j
             IN  << [id |-> questions[i].id, question |-> questions[i].question,
                     answer |-> answers[questions[i].id]] >>

\* pairs built from the questions the command showed, when it showed some
qa_pairs_Presented(questions, answers) ==
    LET shown == IF cli.presented # <<>> THEN cli.presented ELSE questions
        IsAnswered(q) == q.id \in DOMAIN answers
        kept == SelectSeq(shown, IsAnswered)
    IN  [k \in 1..Len(kept) |->
            [id |-> kept[k].id, question |-> kept[k].question,
             answer |-> answers[kept[k].id]]]

\* the Q&A pairs update_specification builds
RECURSIVE qa_pairs(_, _)
qa_pairs(questions, answers) ==
    IF questions = <<>> THEN <<>>
    ELSE LET question == Head(questions)
         IN  (IF question.id \in DOMAIN answers
              THEN << [id |-> question.id, question |-> question.question,
                       answer |-> answers[question.id]] >>
              ELSE <<>>) \o qa_pairs(Tail(questions), answers)

\* update_specification removing the code fence around the reply
strip_fences(updated_spec) ==
    LET endswith_fence(t) == t # <<>> /\ t[Len(t)] = Fence
        drop_end(t) == IF endswith_fence(t) THEN SubSeq(t, 1, Len(t) - 1) ELSE t
    IN  IF updated_spec # <<>> /\ updated_spec[1] = FenceMarkdown
        THEN Strip(drop_end(Tail(updated_spec)))
        ELSE IF updated_spec # <<>> /\ updated_spec[1] \in FenceTokens
        THEN Strip(drop_end(AfterBackticks(updated_spec[1]) \o Tail(updated_spec)))
        ELSE Strip(updated_spec)

(***************************************************************************)
(* SlugSpec: slugify on bounded inputs. An input is an optional first      *)
(* character, a run of "a" that is empty or reaches the truncation limit,  *)
(* and a tail of at most MaxTail characters.                               *)
(***************************************************************************)
SlugAlphabet == {"a", "Z", "7", " ", "_", "-", "!", "U+00C9", "U+0130"}

RECURSIVE TextsUpTo(_)
TextsUpTo(n) ==
    IF n = 0 THEN {<<>>}
    ELSE LET shorter == TextsUpTo(n - 1)
         IN  shorter \cup { Append(t, c) : t \in shorter, c \in SlugAlphabet }

Pad(k) == [i \in 1..k |-> "a"]

PadLens == {0} \cup ((SlugMaxLen - 2)..SlugMaxLen)

SlugInputs ==
    { h \o Pad(k) \o t : h \in TextsUpTo(1), k \in PadLens, t \in TextsUpTo(MaxTail) }

PipelineIdle ==
    /\ pc = "idle"
    /\ wf = "none"
    /\ st = initial_state(<<>>)
    /\ steps = <<>>
    /\ gatewayLog = <<>>
    /\ gatewayCalls = 0
    /\ outcome = "none"
    /\ runs = 0

NoFmOp ==
    [raised |-> FALSE,
     path |-> None,
     number |-> 0,
     op |-> "none",
     feature |-> <<>>,
     before |-> [root |-> FALSE, dirs |-> {}, plain |-> {}, files |-> {}]]

EmptyStore(root) == [root |-> root, dirs |-> {}, plain |-> {}, files |-> {}]

\* the clarify command is not running
NoCli == [answers |-> Nothing, presented |-> <<>>, pass |-> "off", printed |-> "none"]

\* no concurrent saves
NoRace == [procs |-> <<>>, writes |-> <<>>]

NoPipeline ==
    /\ race = NoRace
    /\ cli = NoCli
    /\ fs = EmptyStore(FALSE)
    /\ pre = fs
    /\ PipelineIdle
    /\ fmOp = NoFmOp

NoSlug ==
    /\ slugIn = <<>>
    /\ slugOut = <<>>
    /\ slugTwice = <<>>
    /\ slugPc = "off"

InitSlug ==
    /\ NoPipeline
    /\ slugIn \in SlugInputs
    /\ slugOut = <<>>
    /\ slugTwice = <<>>
    /\ slugPc = "start"

SlugifyOnce ==
    /\ slugPc = "start"
    /\ slugOut' = slugify(slugIn)
    /\ slugPc' = "once"
    /\ UNCHANGED <<slugIn, slugTwice>>
    /\ UNCHANGED storeVars

SlugifyAgain ==
    /\ slugPc = "once"
    /\ slugTwice' = slugify(slugOut)
    /\ slugPc' = "twice"
    /\ UNCHANGED <<slugIn, slugOut>>
    /\ UNCHANGED storeVars

NextSlug == SlugifyOnce \/ SlugifyAgain

SlugSpec == InitSlug /\ [][NextSlug]_vars

(***************************************************************************)
(* StoreSpec: the file_manager functions on arbitrary store contents. The  *)
(* store starts absent, or with at most MaxInitEntries entries, each a     *)
(* directory or a plain file, named from CandidateNames.                   *)
(***************************************************************************)
CandidateNames ==
    { <<"n","o","t","e","s">>,
      <<"7">>,
      <<"0","-","x">>,
      <<"0","0","1","-","a">>,
      <<"0","0","2","-","a">>,
      <<"7","-","b">>,
      <<"0","0","7","-","x","-","y">>,
      <<"1","0","-","c">>,
      <<"1","2","x","-","d">> }

FeatureNames == { <<"A">>, <<"x"," ","Y">>, <<"!">> }

InitialStores ==
    {EmptyStore(FALSE)} \cup
    { [root |-> TRUE, dirs |-> D, plain |-> P, files |-> {}] :
        <<D, P>> \in { x \in (SUBSET CandidateNames) \X (SUBSET CandidateNames) :
                          /\ x[1] \cap x[2] = {}
                          /\ Cardinality(x[1] \cup x[2]) <= MaxInitEntries } }

InitStore ==
    /\ fs \in InitialStores
    /\ pre = fs
    /\ PipelineIdle
    /\ fmOp = NoFmOp
    /\ NoSlug
    /\ race = NoRace
    /\ cli = NoCli

GetNextSpecNumber ==
    /\ runs < MaxOps
    /\ runs' = runs + 1
    /\ fmOp' = [NoFmOp EXCEPT !.op = "next", !.before = fs,
                              !.number = get_next_spec_number(fs)]
    /\ UNCHANGED <<fs, pre, pc, st, gatewayCalls, outcome>>
    /\ UNCHANGED auxVars
    /\ UNCHANGED <<slugVars, race, cli>>

CreateSpecDirectory ==
    /\ runs < MaxOps
    /\ runs' = runs + 1
    /\ \E feature \in FeatureNames :
          LET r == create_spec_directory(feature, fs)
          IN  /\ fs' = r.fs
              /\ fmOp' = [raised |-> r.raised,
                          path |-> r.path,
                          number |-> r.number,
                          op |-> "create",
                          feature |-> feature,
                          before |-> fs]
    /\ UNCHANGED <<pre, pc, st, gatewayCalls, outcome>>
    /\ UNCHANGED auxVars
    /\ UNCHANGED <<slugVars, race, cli>>

FindLatestSpec ==
    /\ runs < MaxOps
    /\ runs' = runs + 1
    /\ \E p \in find_latest_spec(fs) :
          fmOp' = [NoFmOp EXCEPT !.op = "latest", !.before = fs, !.path = p]
    /\ UNCHANGED <<fs, pre, pc, st, gatewayCalls, outcome>>
    /\ UNCHANGED auxVars
    /\ UNCHANGED <<slugVars, race, cli>>

NextStore == GetNextSpecNumber \/ CreateSpecDirectory \/ FindLatestSpec

StoreSpec == InitStore /\ [][NextStore]_vars

(***************************************************************************)
(* Properties of the store                                                 *)
(***************************************************************************)
\* the name starts with one or more decimal digits followed by a hyphen
HasLeadingInteger(name) ==
    \E k \in 1..(Len(name) - 1) :
        /\ \A i \in 1..k : \E j \in 1..10 : name[i] = DigitChars[j]
        /\ name[k + 1] = "-"

DecimalValue(c) ==
    CASE c = "0" -> 0 [] c = "1" -> 1 [] c = "2" -> 2 [] c = "3" -> 3 [] c = "4" -> 4
      [] c = "5" -> 5 [] c = "6" -> 6 [] c = "7" -> 7 [] c = "8" -> 8 [] c = "9" -> 9

\* the integer those digits denote
LeadingInteger(name) ==
    LET k == CHOOSE k \in 1..(Len(name) - 1) :
                 /\ \A i \in 1..k : \E j \in 1..10 : name[i] = DigitChars[j]
                 /\ name[k + 1] = "-"
        val[i \in 0..k] == IF i = 0 THEN 0 ELSE val[i - 1] * 10 + DecimalValue(name[i])
    IN  val[k]

\* the integer find_latest orders by: 0 when the name has no leading integer
LeadingIntegerOrZero(name) == IF HasLeadingInteger(name) THEN LeadingInteger(name) ELSE 0

Numbered(f) == { d \in f.dirs : HasLeadingInteger(d) }

Allocated == fmOp.op = "next" \/ (fmOp.op = "create" /\ ~fmOp.raised)

\* C2: for a store whose directories carry leading integers d_1..d_N,
\* get_next_spec_number and create_spec_directory return max(d_i) + 1;
\* directories without a leading integer and plain files do not count.
C2_AllocateReturnsMaxPlusOne ==
    Allocated /\ Numbered(fmOp.before) # {} =>
        /\ \A d \in Numbered(fmOp.before) : fmOp.number > LeadingInteger(d)
        /\ \E d \in Numbered(fmOp.before) : fmOp.number = LeadingInteger(d) + 1

C2_Witness ==
    /\ Allocated
    /\ \E d, e \in Numbered(fmOp.before) : LeadingInteger(d) # LeadingInteger(e)
    /\ fmOp.before.dirs \ Numbered(fmOp.before) # {}
    /\ fmOp.before.plain # {}
    /\ fmOp.number >= 11

\* C3: create_spec_directory on a store root that is absent or holds no
\* directory returns number 1, and afterwards the store root exists and
\* holds the directory the call created.
C3_AllocateOnEmptyStore ==
    fmOp.op = "create" /\ ~fmOp.raised
      /\ (~fmOp.before.root \/ fmOp.before.dirs = {}) =>
        /\ fmOp.number = 1
        /\ fs.root
        /\ fmOp.path \in fs.dirs
        /\ fs.dirs = {fmOp.path}

C3_Witness ==
    /\ fmOp.op = "create" /\ ~fmOp.raised
    /\ ~fmOp.before.root
    /\ fmOp.number = 1
    /\ fs.root
    /\ fs.dirs = {<<"0","0","1","-","x","-","y">>}

\* C4: find_latest_spec returns none exactly when the store root is absent
\* or holds no directory; otherwise it returns a directory of the store
\* whose leading integer (0 without one) is at least that of every other
\* directory.
C4_FindLatest ==
    fmOp.op = "latest" =>
        /\ fmOp.path = None <=> (~fs.root \/ fs.dirs = {})
        /\ fmOp.path # None =>
              /\ fmOp.path \in fs.dirs
              /\ \A d \in fs.dirs :
                    LeadingIntegerOrZero(fmOp.path) >= LeadingIntegerOrZero(d)

C4_Witness ==
    /\ fmOp.op = "latest"
    /\ fmOp.path \in fs.dirs
    /\ \E d \in fs.dirs : LeadingIntegerOrZero(d) < LeadingIntegerOrZero(fmOp.path)
                            /\ HasLeadingInteger(d)
    /\ \E d \in fs.dirs : ~HasLeadingInteger(d)

\* C5: find_latest_spec never returns a directory whose name has no
\* leading integer, also when only such directories exist or when one
\* ties at 0 with a directory numbered 0.
C5_FindLatestNeverUnnumbered ==
    fmOp.op = "latest" /\ fmOp.path # None => HasLeadingInteger(fmOp.path)

(***************************************************************************)
(* Spec: sequential pipeline invocations, starting from an absent or empty *)
(* store. The Model Gateway returns one of its replies or fails.           *)
(***************************************************************************)
Descriptions ==
    { <<>>,
      <<" "," "," ">>,
      <<"s","h","o","r","t">>,
      <<"a","b","c","d","e","f","g","h","i">>,
      <<"a","b","c","d","e","f","g","h","i","j">>,
      <<" "," ","a","b","c","d","e","f","g","h","i"," ">>,
      <<" ","a","b","c","d","e","f","g","h","i","j">>,
      <<"A","d","d"," ","C","S","V"," ","e","x","p","o","r","t"," ","t","o"," ","r","e","p","o","r","t","s"," ","p","a","g","e">>,
      <<"A","B","C","D","E","F","G","H","I","J">>,
      <<"!","!","!","!","!","!","!","!","!","!">>,
      Pad(SlugMaxLen - 1) \o <<" ", "b">> }

Responses == { <<"R","1">>, <<"R","2">> }

GatewayFailure == <<"GatewayError">>

\* client.messages.create returning as if it had succeeded
Raised_Swallowed(reply) == FALSE

\* client.messages.create raised instead of returning a response
Raised(reply) == reply = GatewayFailure

\* one Model Gateway call, as the log keeps it
GatewayCall(node, specification, extra, pairs, reply) ==
    [specification |-> specification,
     reply |-> IF reply = GatewayFailure THEN <<>> ELSE reply,
     node |-> node,
     extra |-> extra,
     pairs |-> pairs,
     failed |-> (reply = GatewayFailure)]

Init ==
    /\ fs \in {EmptyStore(FALSE), EmptyStore(TRUE)}
    /\ pre = fs
    /\ PipelineIdle
    /\ fmOp = NoFmOp
    /\ NoSlug
    /\ race = NoRace
    /\ cli = NoCli

\* workflow.invoke(initial_state): enter the workflow at its first node
Invoke(pipeline, first, state) ==
    /\ pc \in {"idle", "done"}
    /\ runs < MaxRuns
    /\ wf' = pipeline
    /\ st' = state
    /\ pc' = first
    /\ steps' = <<>>
    /\ pre' = fs
    /\ gatewayCalls' = 0
    /\ gatewayLog' = <<>>
    /\ outcome' = "running"
    /\ runs' = runs + 1
    /\ UNCHANGED <<fs, fmOp>>
    /\ UNCHANGED <<slugVars, race>>

\* run_specify: build the initial state and enter the workflow at analyze
RunSpecify ==
    /\ \E d \in Descriptions : Invoke("specify", "analyze", initial_state(d))
    /\ UNCHANGED cli

\* node analyze and the conditional edge after it
AnalyzeInput ==
    /\ wf = "specify" /\ pc = "analyze"
    /\ steps' = Append(steps, "analyze")
    /\ st' = [st EXCEPT !.error = analyze_input(st)]
    /\ pc' = should_continue(st')
    /\ outcome' = IF pc' = "done" THEN "error" ELSE outcome
    /\ UNCHANGED <<fs, pre, wf, gatewayCalls, gatewayLog, runs, fmOp>>
    /\ UNCHANGED <<slugVars, race, cli>>

\* node generate: one Gateway call, whose failure leaves the workflow as an
\* exception
GenerateSpecification ==
    /\ wf = "specify" /\ pc = "generate"
    /\ steps' = Append(steps, "generate")
    /\ IF HasError(st)
       THEN /\ pc' = "save"
            /\ UNCHANGED <<st, gatewayCalls, gatewayLog, outcome>>
       ELSE \E reply \in Responses \cup {GatewayFailure} :
               /\ gatewayCalls' = gatewayCalls + 1
               /\ gatewayLog' = Append(gatewayLog,
                      GatewayCall("generate", <<>>, st.feature_description, <<>>, reply))
               /\ IF Raised(reply)
                  THEN /\ pc' = "done"
                       /\ outcome' = "gateway_error"
                       /\ UNCHANGED st
                  ELSE /\ st' = [st EXCEPT !.specification = reply]
                       /\ pc' = "save"
                       /\ UNCHANGED outcome
    /\ UNCHANGED <<fs, pre, wf, runs, fmOp>>
    /\ UNCHANGED <<slugVars, race, cli>>

\* node save: create_spec_directory, then save_markdown
SaveSpecification ==
    /\ wf = "specify" /\ pc = "save"
    /\ steps' = Append(steps, "save")
    /\ pc' = "done"
    /\ IF HasError(st)
       THEN /\ outcome' = "error"
            /\ UNCHANGED <<fs, st>>
       ELSE \E created \in { create_spec_directory(st.feature_description, fs) } :
            IF created.raised
            THEN /\ fs' = created.fs
                 /\ outcome' = "exception"
                 /\ UNCHANGED st
            ELSE \E saved \in { save_markdown(st.specification, created.path,
                                              SpecificationFile, created.fs) } :
                 IF saved.raised
                 THEN /\ fs' = saved.fs
                      /\ outcome' = "exception"
                      /\ UNCHANGED st
                 ELSE /\ fs' = saved.fs
                      /\ st' = [st EXCEPT !.spec_path = created.path,
                                          !.spec_number = created.number]
                      /\ outcome' = "ok"
    /\ UNCHANGED <<pre, wf, gatewayCalls, gatewayLog, runs, fmOp>>
    /\ UNCHANGED <<slugVars, race, cli>>

\* the technical_constraints argument of run_plan
Constraints == { <<>>, <<"G","o">> }

\* run_plan
RunPlan ==
    /\ \E c \in Constraints : Invoke("plan", "load", plan_initial_state(c))
    /\ UNCHANGED cli

\* node load of plan.py and the conditional edge after it
PlanLoadSpecification ==
    /\ wf = "plan" /\ pc = "load"
    /\ steps' = Append(steps, "load")
    /\ \E spec_path \in find_latest_spec(fs) :
          st' = plan_load_specification(st, spec_path, fs)
    /\ pc' = plan_should_continue(st')
    /\ outcome' = IF pc' = "done" THEN "error" ELSE outcome
    /\ UNCHANGED <<fs, pre, wf, gatewayCalls, gatewayLog, runs, fmOp>>
    /\ UNCHANGED <<slugVars, race, cli>>

\* node generate of plan.py
GeneratePlan ==
    /\ wf = "plan" /\ pc = "generate"
    /\ steps' = Append(steps, "generate")
    /\ IF HasError(st)
       THEN /\ pc' = "save"
            /\ UNCHANGED <<st, gatewayCalls, gatewayLog, outcome>>
       ELSE \E reply \in Responses \cup {GatewayFailure} :
               /\ gatewayCalls' = gatewayCalls + 1
               /\ gatewayLog' = Append(gatewayLog,
                      GatewayCall("generate", st.specification,
                                  st.technical_constraints, <<>>, reply))
               /\ IF Raised(reply)
                  THEN /\ pc' = "done"
                       /\ outcome' = "gateway_error"
                       /\ UNCHANGED st
                  ELSE /\ st' = [st EXCEPT !.plan = reply]
                       /\ pc' = "save"
                       /\ UNCHANGED outcome
    /\ UNCHANGED <<fs, pre, wf, runs, fmOp>>
    /\ UNCHANGED <<slugVars, race, cli>>

\* node save of plan.py
SavePlan ==
    /\ wf = "plan" /\ pc = "save"
    /\ steps' = Append(steps, "save")
    /\ pc' = "done"
    /\ IF HasError(st)
       THEN /\ outcome' = "error"
            /\ UNCHANGED <<fs, st>>
       ELSE LET saved == save_markdown(st.plan, st.spec_path, PlanFile, fs)
            IN  /\ fs' = saved.fs
                /\ IF saved.raised
                   THEN /\ outcome' = "exception"
                        /\ UNCHANGED st
                   ELSE /\ st' = [st EXCEPT !.plan_file = JoinPath(st.spec_path, PlanFile)]
                        /\ outcome' = "ok"
    /\ UNCHANGED <<pre, wf, gatewayCalls, gatewayLog, runs, fmOp>>
    /\ UNCHANGED <<slugVars, race, cli>>

\* run_tasks
RunTasks ==
    /\ Invoke("tasks", "load", tasks_initial_state)
    /\ UNCHANGED cli

\* node load of tasks.py and the conditional edge after it
LoadPlan ==
    /\ wf = "tasks" /\ pc = "load"
    /\ steps' = Append(steps, "load")
    /\ \E spec_path \in find_latest_spec(fs) :
          st' = load_plan(st, spec_path, fs)
    /\ pc' = tasks_should_continue(st')
    /\ outcome' = IF pc' = "done" THEN "error" ELSE outcome
    /\ UNCHANGED <<fs, pre, wf, gatewayCalls, gatewayLog, runs, fmOp>>
    /\ UNCHANGED <<slugVars, race, cli>>

\* node generate of tasks.py
GenerateTasks ==
    /\ wf = "tasks" /\ pc = "generate"
    /\ steps' = Append(steps, "generate")
    /\ IF HasError(st)
       THEN /\ pc' = "save"
            /\ UNCHANGED <<st, gatewayCalls, gatewayLog, outcome>>
       ELSE \E reply \in Responses \cup {GatewayFailure} :
               /\ gatewayCalls' = gatewayCalls + 1
               /\ gatewayLog' = Append(gatewayLog,
                      GatewayCall("generate", st.specification, st.plan, <<>>, reply))
               /\ IF Raised(reply)
                  THEN /\ pc' = "done"
                       /\ outcome' = "gateway_error"
                       /\ UNCHANGED st
                  ELSE /\ st' = [st EXCEPT !.tasks = reply]
                       /\ pc' = "save"
                       /\ UNCHANGED outcome
    /\ UNCHANGED <<fs, pre, wf, runs, fmOp>>
    /\ UNCHANGED <<slugVars, race, cli>>

\* node save of tasks.py
SaveTasks ==
    /\ wf = "tasks" /\ pc = "save"
    /\ steps' = Append(steps, "save")
    /\ pc' = "done"
    /\ IF HasError(st)
       THEN /\ outcome' = "error"
            /\ UNCHANGED <<fs, st>>
       ELSE LET saved == save_markdown(st.tasks, st.spec_path, TasksFile, fs)
            IN  /\ fs' = saved.fs
                /\ IF saved.raised
                   THEN /\ outcome' = "exception"
                        /\ UNCHANGED st
                   ELSE /\ st' = [st EXCEPT !.tasks_file = JoinPath(st.spec_path, TasksFile)]
                        /\ outcome' = "ok"
    /\ UNCHANGED <<pre, wf, gatewayCalls, gatewayLog, runs, fmOp>>
    /\ UNCHANGED <<slugVars, race, cli>>

\* the answers argument of run_clarify
AnswerMaps ==
    { Nothing,
      Some(<<>>),
      Some([i \in {1} |-> "yes"]),
      Some([i \in {99} |-> "x"]),
      Some([i \in {1, 2} |-> IF i = 1 THEN "csv" ELSE "all"]),
      Some([i \in {2, 99} |-> IF i = 2 THEN "all" ELSE "x"]) }

\* what the Gateway can reply to the analysis prompt
AnalyzeReplies ==
    { <<"no json here">>,
      <<FenceJson, "\n", DocNoQuestions, "\n", Fence>>,
      <<FenceJson, "\n", DocTwoQuestions, "\n", Fence>>,
      <<"Here they are:", "\n", Fence, "\n", DocTwoQuestions, "\n", Fence, "\n">>,
      <<DocTwoQuestions>>,
      <<FenceJson, "\n", DocTwoQuestions>>,
      <<DocNoQuestionsKey>>,
      <<DocArray>>,
      <<FenceJson, "\n", DocSixQuestions, "\n", Fence>> }

\* what the Gateway can reply to the update prompt
UpdateReplies ==
    { <<"U","1">>,
      <<FenceMarkdown, "\n", "U", "2", "\n", Fence>>,
      <<Fence, "\n", "U", "3", "\n", Fence, "\n">> }

\* run_clarify
RunClarify ==
    /\ \E answers \in AnswerMaps : Invoke("clarify", "load", clarify_initial_state(answers))
    /\ UNCHANGED cli

\* node load of clarify.py and the conditional edge after it
ClarifyLoadSpecification ==
    /\ wf = "clarify" /\ pc = "load"
    /\ steps' = Append(steps, "load")
    /\ \E spec_path \in find_latest_spec(fs) :
          st' = clarify_load_specification(st, spec_path, fs)
    /\ pc' = should_continue_after_load(st')
    /\ outcome' = IF pc' = "done" THEN "error" ELSE outcome
    /\ UNCHANGED <<fs, pre, wf, gatewayCalls, gatewayLog, runs, fmOp>>
    /\ UNCHANGED <<slugVars, race, cli>>

\* node analyze of clarify.py and the conditional edge after it
AnalyzeAndGenerateQuestions ==
    /\ wf = "clarify" /\ pc = "analyze"
    /\ steps' = Append(steps, "analyze")
    /\ IF HasError(st)
       THEN /\ pc' = should_continue_after_analyze(st)
            /\ outcome' = "error"
            /\ UNCHANGED <<st, gatewayCalls, gatewayLog>>
       ELSE \E reply \in AnalyzeReplies \cup {GatewayFailure} :
               /\ gatewayCalls' = gatewayCalls + 1
               /\ gatewayLog' = Append(gatewayLog,
                      GatewayCall("analyze", st.specification, <<>>, <<>>, reply))
               /\ IF Raised(reply)
                  THEN /\ pc' = "done"
                       /\ outcome' = "gateway_error"
                       /\ UNCHANGED st
                  ELSE LET result == analyze_and_generate_questions(st, reply)
                       IN  IF result.raised
                           THEN /\ pc' = "done"
                                /\ outcome' = "exception"
                                /\ UNCHANGED st
                           ELSE /\ st' = result.state
                                /\ pc' = should_continue_after_analyze(st')
                                /\ outcome' = IF pc' # "done" THEN outcome
                                              ELSE IF HasError(st') THEN "error" ELSE "ok"
    /\ UNCHANGED <<fs, pre, wf, runs, fmOp>>
    /\ UNCHANGED <<slugVars, race, cli>>

\* node update of clarify.py and the conditional edge after it
UpdateSpecification ==
    /\ wf = "clarify" /\ pc = "update"
    /\ steps' = Append(steps, "update")
    /\ IF HasError(st) \/ Falsy(st.answers)
       THEN /\ pc' = should_continue_after_update(st)
            /\ outcome' = IF pc' = "done" THEN "error" ELSE outcome
            /\ UNCHANGED <<st, gatewayCalls, gatewayLog>>
       ELSE LET pairs == qa_pairs(st.questions.value, st.answers.value)
            IN  IF pairs = <<>>
                THEN /\ st' = [st EXCEPT !.error = ErrNoAnswers]
                     /\ pc' = should_continue_after_update(st')
                     /\ outcome' = IF pc' = "done" THEN "error" ELSE outcome
                     /\ UNCHANGED <<gatewayCalls, gatewayLog>>
                ELSE \E reply \in UpdateReplies \cup {GatewayFailure} :
                        /\ gatewayCalls' = gatewayCalls + 1
                        /\ gatewayLog' = Append(gatewayLog,
                               GatewayCall("update", st.specification, <<>>, pairs, reply))
                        /\ IF Raised(reply)
                           THEN /\ pc' = "done"
                                /\ outcome' = "gateway_error"
                                /\ UNCHANGED st
                           ELSE /\ st' = [st EXCEPT !.updated_spec = strip_fences(reply)]
                                /\ pc' = should_continue_after_update(st')
                                /\ UNCHANGED outcome
    /\ UNCHANGED <<fs, pre, wf, runs, fmOp>>
    /\ UNCHANGED <<slugVars, race, cli>>

\* node save of clarify.py
ClarifySaveSpecification ==
    /\ wf = "clarify" /\ pc = "save"
    /\ steps' = Append(steps, "save")
    /\ pc' = "done"
    /\ IF HasError(st)
       THEN /\ outcome' = "error"
            /\ UNCHANGED fs
       ELSE LET saved == save_markdown(st.updated_spec, st.spec_path, SpecificationFile, fs)
            IN  /\ fs' = saved.fs
                /\ outcome' = IF saved.raised THEN "exception" ELSE "ok"
    /\ UNCHANGED <<pre, wf, st, gatewayCalls, gatewayLog, runs, fmOp>>
    /\ UNCHANGED <<slugVars, race, cli>>

Next ==
    \/ RunSpecify \/ AnalyzeInput \/ GenerateSpecification \/ SaveSpecification
    \/ RunPlan \/ PlanLoadSpecification \/ GeneratePlan \/ SavePlan
    \/ RunTasks \/ LoadPlan \/ GenerateTasks \/ SaveTasks
    \/ RunClarify \/ ClarifyLoadSpecification \/ AnalyzeAndGenerateQuestions
    \/ UpdateSpecification \/ ClarifySaveSpecification

Spec == Init /\ [][Next]_vars

(***************************************************************************)
(* TamperSpec: the same invocations on a store that was edited by hand     *)
(* between runs: directories whose files were removed or added outside     *)
(* the pipelines.                                                          *)
(***************************************************************************)
\* a store directory holding the named files
HandMade(dir, names) ==
    { [name |-> n, content |-> <<"H", "0">>, dir |-> dir] : n \in names }

StoreOf(dirs, files) == [root |-> TRUE, dirs |-> dirs, plain |-> {}, files |-> files]

DirA == <<"0","0","1","-","a">>

DirB == <<"0","0","2","-","b">>

DirNotes == <<"n","o","t","e","s">>

\* the specification.md a later Specify saved: a text of its own
NewerSpecification(dir) ==
    { [name |-> SpecificationFile, content |-> <<"H", "1">>, dir |-> dir] }

TamperedStores ==
    { EmptyStore(FALSE),
      StoreOf({DirNotes}, {}),
      StoreOf({DirA, DirB}, HandMade(DirA, {SpecificationFile})),
      StoreOf({DirA, DirB}, HandMade(DirA, {SpecificationFile, PlanFile})
                              \cup HandMade(DirB, {PlanFile})),
      StoreOf({DirB}, HandMade(DirB, {SpecificationFile})),
      StoreOf({DirA, DirB}, HandMade(DirA, {SpecificationFile, PlanFile})
                              \cup NewerSpecification(DirB)),
      StoreOf({DirA, DirB}, HandMade(DirA, {SpecificationFile, PlanFile, TasksFile})
                              \cup HandMade(DirB, {SpecificationFile, PlanFile})) }

\* the edited store is what is left of an earlier invocation, which counts
InitTampered ==
    /\ fs \in TamperedStores
    /\ pre = fs
    /\ pc = "idle"
    /\ wf = "none"
    /\ st = initial_state(<<>>)
    /\ steps = <<>>
    /\ gatewayLog = <<>>
    /\ gatewayCalls = 0
    /\ outcome = "none"
    /\ runs = 1
    /\ fmOp = NoFmOp
    /\ NoSlug
    /\ race = NoRace
    /\ cli = NoCli

TamperSpec == InitTampered /\ [][Next]_vars

\* the steps workflow.invoke takes by itself once it was called
NodeStep ==
    \/ AnalyzeInput \/ GenerateSpecification \/ SaveSpecification
    \/ PlanLoadSpecification \/ GeneratePlan \/ SavePlan
    \/ LoadPlan \/ GenerateTasks \/ SaveTasks
    \/ ClarifyLoadSpecification \/ AnalyzeAndGenerateQuestions
    \/ UpdateSpecification \/ ClarifySaveSpecification

\* Spec where an invocation that was started runs on: workflow.invoke does
\* not return before the workflow reached END or raised
\* the stores an invocation can find: none yet, or the directory an earlier
\* Specify and Plan left behind (the earlier invocation counts as a run)
LiveStores ==
    { EmptyStore(FALSE),
      StoreOf({DirA}, HandMade(DirA, {SpecificationFile, PlanFile})) }

InitLive ==
    /\ fs \in LiveStores
    /\ pre = fs
    /\ pc = "idle"
    /\ wf = "none"
    /\ st = initial_state(<<>>)
    /\ steps = <<>>
    /\ gatewayLog = <<>>
    /\ gatewayCalls = 0
    /\ outcome = "none"
    /\ runs = 1
    /\ fmOp = NoFmOp
    /\ NoSlug
    /\ race = NoRace
    /\ cli = NoCli

\* workflow.invoke runs the compiled graph to its END in the calling
\* thread: a node that can run does run
LiveSpec == InitLive /\ [][Next]_vars /\ WF_vars(NodeStep)

(***************************************************************************)
(* RaceSpec: two Specify invocations reach their save node at the same     *)
(* time. Each one runs create_spec_directory and save_markdown as the      *)
(* filesystem calls they make: list the store, make the directory, write   *)
(* the file. The calls of the two interleave in any order.                 *)
(***************************************************************************)
Procs == {1, 2}

\* descriptions: two with the same slug and one with another
RaceFeatures == { <<"A","b">>, <<"a","b">>, <<"c","d">> }

RaceStores ==
    { EmptyStore(FALSE), EmptyStore(TRUE),
      StoreOf({DirA}, HandMade(DirA, {SpecificationFile})) }

\* a save node about to call create_spec_directory
SaveEntered(feature_name, content) ==
    [pc |-> "scan",
     feature_name |-> feature_name,
     spec_number |-> 0,
     dir_name |-> None,
     content |-> content,
     listing |-> {}]

InitRace ==
    /\ fs \in RaceStores
    /\ pre = fs
    /\ PipelineIdle
    /\ fmOp = NoFmOp
    /\ NoSlug
    /\ cli = NoCli
    /\ \E features \in [Procs -> RaceFeatures], contents \in [Procs -> Responses] :
          race = [procs  |-> [p \in Procs |-> SaveEntered(features[p], contents[p])],
                  writes |-> <<>>]

\* create_spec_directory up to dir_name: make the store root, list it
RaceScan ==
    \E p \in Procs :
        LET me          == race.procs[p]
            f1          == [fs EXCEPT !.root = TRUE]
            spec_number == get_next_spec_number(f1)
            slug        == slugify(me.feature_name)
            dir_name    == Format03d(spec_number) \o <<"-">> \o slug
        IN  /\ me.pc = "scan"
            /\ fs' = f1
            /\ race' = [race EXCEPT !.procs[p] =
                           [me EXCEPT !.pc = "mkdir", !.listing = f1.dirs,
                                      !.spec_number = spec_number,
                                      !.dir_name = dir_name]]
            /\ UNCHANGED <<pre, pc, wf, st, steps, gatewayCalls, gatewayLog, outcome,
                           runs, fmOp>>
            /\ UNCHANGED <<slugVars, cli>>

\* spec_path.mkdir(parents=True, exist_ok=True)
RaceMkdir ==
    \E p \in Procs :
        LET me == race.procs[p]
        IN  /\ me.pc = "mkdir"
            /\ IF MkdirRaises(fs, me.dir_name)
               THEN /\ race' = [race EXCEPT !.procs[p].pc = "raised"]
                    /\ UNCHANGED fs
               ELSE /\ fs' = Mkdir(fs, me.dir_name)
                    /\ race' = [race EXCEPT !.procs[p].pc = "write"]
            /\ UNCHANGED <<pre, pc, wf, st, steps, gatewayCalls, gatewayLog, outcome,
                           runs, fmOp>>
            /\ UNCHANGED <<slugVars, cli>>

\* save_markdown(state["specification"], spec_path / "specification.md")
RaceWrite ==
    \E p \in Procs :
        LET me    == race.procs[p]
            saved == save_markdown(me.content, me.dir_name, SpecificationFile, fs)
        IN  /\ me.pc = "write"
            /\ IF saved.raised
               THEN /\ race' = [race EXCEPT !.procs[p].pc = "raised"]
                    /\ UNCHANGED fs
               ELSE /\ fs' = saved.fs
                    /\ race' = [race EXCEPT !.procs[p].pc = "done",
                                            !.writes = Append(race.writes, p)]
            /\ UNCHANGED <<pre, pc, wf, st, steps, gatewayCalls, gatewayLog, outcome,
                           runs, fmOp>>
            /\ UNCHANGED <<slugVars, cli>>

NextRace == RaceScan \/ RaceMkdir \/ RaceWrite

RaceSpec == InitRace /\ [][NextRace]_vars

(***************************************************************************)
(* CliSpec: the clarify command of cli.py. It runs the Clarify pipeline    *)
(* without answers, shows the questions of the result, asks an answer for  *)
(* each one and runs the pipeline again with the answers.                  *)
(***************************************************************************)
\* click.prompt with the suggested answer as default: Enter, or a typed text
PromptAnswers(question) == {question.suggested_answer, "typed"}

\* a loop that stops before the last question
CollectedAnswers_SkipsLast(questions) ==
    [ { questions[i].id : i \in 1..(Len(questions) - 1) } -> {"suggested", "typed"} ]

\* the dict the loop over the questions fills: answers[question["id"]]
CollectedAnswers(questions) ==
    LET ids == { questions[i].id : i \in DOMAIN questions }
    IN  { a \in [ids -> UNION { PromptAnswers(questions[i]) : i \in DOMAIN questions }] :
            \A id \in ids : \E i \in DOMAIN questions :
                /\ questions[i].id = id
                /\ \A j \in DOMAIN questions : questions[j].id = id => j <= i
                /\ a[id] \in PromptAnswers(questions[i]) }

\* run_clarify raised, which the command's except clause catches, or the
\* result carries an error
CommandFails == outcome \in {"gateway_error", "exception"} \/ HasError(st)

InitCli ==
    /\ fs \in LiveStores
    /\ pre = fs
    /\ PipelineIdle
    /\ fmOp = NoFmOp
    /\ NoSlug
    /\ race = NoRace
    /\ cli = NoCli

\* acpctl clarify: the first run, run_clarify()
ClarifyCommand ==
    /\ cli.pass \in {"off", "ended"}
    /\ runs + 2 <= MaxRuns
    /\ Invoke("clarify", "load", clarify_initial_state(Nothing))
    /\ cli' = [answers |-> Nothing, presented |-> <<>>, pass |-> "first", printed |-> "none"]

\* the command after the first run: exit on an error, return when there is
\* no question, else collect the answers and call run_clarify(answers)
ClarifyAnswers ==
    /\ cli.pass = "first" /\ wf = "clarify" /\ pc = "done"
    /\ IF CommandFails
       THEN /\ cli' = [cli EXCEPT !.pass = "ended", !.printed = "error"]
            /\ UNCHANGED <<fs, pre, pc, wf, st, steps, gatewayCalls, gatewayLog,
                           outcome, runs, fmOp>>
            /\ UNCHANGED <<slugVars, race>>
       ELSE IF Falsy(st.questions)
       THEN /\ cli' = [cli EXCEPT !.pass = "ended", !.printed = "clear"]
            /\ UNCHANGED <<fs, pre, pc, wf, st, steps, gatewayCalls, gatewayLog,
                           outcome, runs, fmOp>>
            /\ UNCHANGED <<slugVars, race>>
       ELSE \E answers \in CollectedAnswers(st.questions.value) :
               /\ Invoke("clarify", "load", clarify_initial_state(Some(answers)))
               /\ cli' = [answers |-> Some(answers),
                          presented |-> st.questions.value,
                          pass |-> "second",
                          printed |-> "none"]

\* the command after the second run: exit on an error, else report the update
ClarifyReport ==
    /\ cli.pass = "second" /\ wf = "clarify" /\ pc = "done"
    /\ cli' = [cli EXCEPT !.pass = "ended",
                          !.printed = IF CommandFails THEN "error" ELSE "updated"]
    /\ UNCHANGED <<fs, pre, pc, wf, st, steps, gatewayCalls, gatewayLog,
                   outcome, runs, fmOp>>
    /\ UNCHANGED <<slugVars, race>>

NextCli ==
    \/ ClarifyCommand \/ ClarifyAnswers \/ ClarifyReport
    \/ ClarifyLoadSpecification \/ AnalyzeAndGenerateQuestions
    \/ UpdateSpecification \/ ClarifySaveSpecification

CliSpec == InitCli /\ [][NextCli]_vars

(***************************************************************************)
(* Properties of slugify                                                   *)
(***************************************************************************)

\* C6: slugify is idempotent: slugify(slugify(x)) = slugify(x) for every
\* input x, also when the normalized text is longer than the truncation
\* limit and has a hyphen at the truncation boundary.
C6_SlugifyIdempotent == slugPc = "twice" => slugTwice = slugOut

\* C7: slugify(x) has no leading hyphen, no trailing hyphen and no two
\* consecutive hyphens, for every input x.
C7_SlugNoStrayHyphens ==
    slugPc # "start" /\ slugPc # "off" =>
        /\ slugOut # <<>> => slugOut[1] # "-" /\ slugOut[Len(slugOut)] # "-"
        /\ \A i \in 1..(Len(slugOut) - 1) : ~(slugOut[i] = "-" /\ slugOut[i + 1] = "-")

\* C8: slugify(x) consists only of characters of [a-z0-9-] and is at most
\* 50 characters long.
C8_SlugCharsAndLength ==
    slugPc # "start" /\ slugPc # "off" =>
        /\ Len(slugOut) <= 50
        /\ \A i \in 1..Len(slugOut) :
              \/ slugOut[i] = "-"
              \/ \E j \in 1..26 : slugOut[i] = LowerLetters[j]
              \/ \E j \in 1..10 : slugOut[i] = DigitChars[j]

C8_Witness ==
    /\ slugPc = "once"
    /\ Len(slugIn) > 50
    /\ Len(slugOut) = 50
    /\ \E i \in 1..Len(slugIn) : slugIn[i] \in {"!", "U+00C9", "Z"}

(***************************************************************************)
(* Properties of the Specify pipeline                                      *)
(***************************************************************************)
SpecifySucceeded == wf = "specify" /\ pc = "done" /\ outcome = "ok"

\* C1: from an absent or empty store, every successful Specify creates a
\* directory whose number is greater than the number of every directory
\* already in the store, so no two directories of the store share a number.
C1_NumbersStrictlyIncrease ==
    /\ \A d \in fs.dirs : HasLeadingInteger(d)
    /\ \A d, e \in fs.dirs : d # e => LeadingInteger(d) # LeadingInteger(e)
    /\ SpecifySucceeded =>
          /\ st.spec_path \in fs.dirs
          /\ LeadingInteger(st.spec_path) = st.spec_number
          /\ \A d \in pre.dirs : st.spec_number > LeadingInteger(d)

C1_Witness ==
    /\ SpecifySucceeded
    /\ Cardinality(pre.dirs) = 2
    /\ st.spec_number = 3
    /\ \E d \in pre.dirs :
          SubSeq(d, 5, Len(d)) = SubSeq(st.spec_path, 5, Len(st.spec_path))

\* the length of the text without its leading and trailing whitespace
TrimmedLength(t) ==
    LET solid == { i \in 1..Len(t) : t[i] # " " /\ t[i] # "\t" /\ t[i] # "\n"
                                       /\ t[i] # "U+00A0" }
    IN  IF solid = {} THEN 0
        ELSE Cardinality({ i \in 1..Len(t) : \E a, b \in solid : a <= i /\ i <= b })

\* C9: Specify ends with a validation error exactly when the trimmed
\* description has fewer than 10 characters; then the Model Gateway was
\* not invoked and the store is as it was.
C9_ValidationError ==
    wf = "specify" /\ pc = "done" =>
        /\ st.error # None <=> TrimmedLength(st.feature_description) < 10
        /\ st.error # None => outcome = "error" /\ gatewayCalls = 0 /\ fs = pre

C9_Witness ==
    /\ wf = "specify" /\ pc = "done"
    /\ st.error # None
    /\ TrimmedLength(st.feature_description) = 9
    /\ Len(st.feature_description) >= 10
    /\ fs.dirs # {}

C9_WitnessPasses ==
    /\ wf = "specify" /\ pc = "done"
    /\ st.error = None
    /\ TrimmedLength(st.feature_description) = 10

\* C10: a successful Specify run adds exactly one directory and exactly one
\* file, specification.md in that directory; every directory and file that
\* existed before is still there, unchanged.
C10_SpecifyFrame ==
    SpecifySucceeded =>
        /\ st.spec_path \notin pre.dirs
        /\ fs.dirs = pre.dirs \cup {st.spec_path}
        /\ fs.plain = pre.plain
        /\ pre.files \subseteq fs.files
        /\ fs.files \ pre.files =
              {[name |-> "specification.md",
                content |-> st.specification,
                dir |-> st.spec_path]}
        /\ \A x, y \in fs.files : x.dir = y.dir /\ x.name = y.name => x = y

C10_Witness ==
    /\ SpecifySucceeded
    /\ pre.dirs # {}
    /\ pre.files # {}
    /\ \E x \in pre.files : x.content # st.specification
    /\ fs.dirs = pre.dirs \cup {st.spec_path}

\* how many digits the name starts with
LeadingDigitCount(name) ==
    CHOOSE k \in 1..(Len(name) - 1) :
        /\ \A i \in 1..k : \E j \in 1..10 : name[i] = DigitChars[j]
        /\ name[k + 1] = "-"

\* the reply of the last Gateway call of the invocation
LastReply == gatewayLog[Len(gatewayLog)].reply

\* C11: after a successful Specify with description D and Gateway response
\* R, the directory created is named N in at least three digits, a hyphen,
\* slugify(D) for the untrimmed D, where N is the returned spec_number; the
\* returned spec path is that directory; its specification.md holds R.
C11_SpecifyNaming ==
    SpecifySucceeded =>
        /\ HasLeadingInteger(st.spec_path)
        /\ LeadingDigitCount(st.spec_path) >= 3
        /\ LeadingDigitCount(st.spec_path) > 3 => st.spec_path[1] # "0"
        /\ LeadingInteger(st.spec_path) = st.spec_number
        /\ SubSeq(st.spec_path, LeadingDigitCount(st.spec_path) + 2, Len(st.spec_path))
              = slugify(st.feature_description)
        /\ st.spec_path \in fs.dirs \ pre.dirs
        /\ Len(gatewayLog) = 1
        /\ gatewayLog[1].extra = st.feature_description
        /\ [name |-> "specification.md", content |-> LastReply, dir |-> st.spec_path]
              \in fs.files

C11_Witness ==
    /\ SpecifySucceeded
    /\ st.spec_number = 2
    /\ st.feature_description[1] = " "
    /\ LastReply = <<"R", "2">>
    /\ st.spec_path = <<"0","0","2","-","a","b","c","d","e","f","g","h","i","j">>

(***************************************************************************)
(* Properties of the Plan and Tasks pipelines                              *)
(***************************************************************************)
\* the directories find_latest can return: those of the highest leading
\* integer, none when the store root is absent or empty
LatestDirs(f) ==
    IF ~f.root THEN {}
    ELSE { d \in f.dirs :
             \A e \in f.dirs : LeadingIntegerOrZero(d) >= LeadingIntegerOrZero(e) }

Holds(f, dir, name) == \E x \in f.files : x.dir = dir /\ x.name = name

ContentOf(f, dir, name) == { x.content : x \in { y \in f.files : y.dir = dir /\ y.name = name } }

IsNotFound(e) ==
    e[1] \in {"No specifications found. Run 'acpctl specify' first.",
              "Specification file not found at ", "Plan file not found at "}

\* the message names the file
NamesFile(e, name) == \E i \in 1..Len(e) : e[i] = name

Ran(node) == \E i \in 1..Len(steps) : steps[i] = node

PlanEnded == wf = "plan" /\ pc = "done"

PlanSucceeded == PlanEnded /\ outcome = "ok"

\* C12: Plan ends with a not-found error, the Model Gateway not invoked and
\* no file written, whenever the store has no directory or its latest
\* directory has no specification.md, even if a lower-numbered one has.
C12_PlanNotFound ==
    PlanEnded /\ (\A d \in LatestDirs(pre) : ~Holds(pre, d, "specification.md")) =>
        /\ outcome = "error"
        /\ IsNotFound(st.error)
        /\ gatewayCalls = 0
        /\ gatewayLog = <<>>
        /\ fs = pre
        /\ ~Ran("generate") /\ ~Ran("save")

C12_Witness ==
    /\ PlanEnded
    /\ LatestDirs(pre) # {}
    /\ \A d \in LatestDirs(pre) : ~Holds(pre, d, "specification.md")
    /\ \E d \in pre.dirs : Holds(pre, d, "specification.md")
    /\ NamesFile(st.error, "specification.md")

\* C13: a successful Plan writes plan.md, holding the Gateway response, into
\* the directory it loaded specification.md from; the directories are the
\* same as before, and so is every file but that plan.md.
C13_PlanFrame ==
    PlanSucceeded =>
        /\ st.spec_path \in LatestDirs(pre)
        /\ ContentOf(pre, st.spec_path, "specification.md") = {st.specification}
        /\ Len(gatewayLog) = 1
        /\ gatewayLog[1].specification = st.specification
        /\ ContentOf(fs, st.spec_path, "plan.md") = {LastReply}
        /\ fs.root = pre.root /\ fs.dirs = pre.dirs /\ fs.plain = pre.plain
        /\ { x \in fs.files : ~(x.dir = st.spec_path /\ x.name = "plan.md") }
              = { x \in pre.files : ~(x.dir = st.spec_path /\ x.name = "plan.md") }

C13_Witness ==
    /\ PlanSucceeded
    /\ \E x \in pre.files : x.dir # st.spec_path
    /\ Holds(fs, st.spec_path, "specification.md")
    /\ ContentOf(fs, st.spec_path, "plan.md") = {<<"R", "1">>}

TasksEnded == wf = "tasks" /\ pc = "done"

\* C14: Tasks load reports one error. When the latest directory has no
\* specification.md the error names the specification file, whether or not
\* plan.md is there; when it has specification.md but no plan.md the error
\* names the plan file. Either way the Model Gateway is not invoked and
\* tasks.md is not written.
C14_TasksLoadError ==
    TasksEnded /\ LatestDirs(pre) # {} =>
        /\ (\A d \in LatestDirs(pre) : ~Holds(pre, d, "specification.md")) =>
              /\ NamesFile(st.error, "specification.md")
              /\ ~NamesFile(st.error, "plan.md")
              /\ outcome = "error" /\ gatewayCalls = 0 /\ fs = pre
        /\ (\A d \in LatestDirs(pre) :
               Holds(pre, d, "specification.md") /\ ~Holds(pre, d, "plan.md")) =>
              /\ NamesFile(st.error, "plan.md")
              /\ ~NamesFile(st.error, "specification.md")
              /\ outcome = "error" /\ gatewayCalls = 0 /\ fs = pre

C14_Witness ==
    /\ TasksEnded
    /\ \E d \in LatestDirs(pre) :
          ~Holds(pre, d, "specification.md") /\ Holds(pre, d, "plan.md")
    /\ NamesFile(st.error, "specification.md")

C14_WitnessPlanMissing ==
    /\ TasksEnded
    /\ \E d \in LatestDirs(pre) :
          Holds(pre, d, "specification.md") /\ ~Holds(pre, d, "plan.md")
    /\ NamesFile(st.error, "plan.md")

(***************************************************************************)
(* Properties of the store under every pipeline                            *)
(***************************************************************************)
\* C15: in every store reached from an absent or empty one by invocations
\* of the four pipelines, a directory that holds plan.md holds
\* specification.md, and one that holds tasks.md holds both.
C15_ArtifactOrder ==
    \A d \in fs.dirs :
        /\ Holds(fs, d, "plan.md") => Holds(fs, d, "specification.md")
        /\ Holds(fs, d, "tasks.md") =>
              Holds(fs, d, "specification.md") /\ Holds(fs, d, "plan.md")

C15_Witness ==
    /\ wf = "tasks" /\ pc = "done" /\ outcome = "ok"
    /\ \E d \in fs.dirs : Holds(fs, d, "tasks.md") /\ ~Holds(pre, d, "tasks.md")

\* C16: no step removes or renames a directory or a file, and only a step
\* of Specify adds a directory or creates the store root.
C16_StoreOnlyGrows ==
    [][ /\ fs.dirs \subseteq fs'.dirs
        /\ fs.root => fs'.root
        /\ \A x \in fs.files : Holds(fs', x.dir, x.name)
        /\ (fs'.dirs # fs.dirs \/ fs'.root # fs.root) => wf = "specify" ]_vars

C16_Witness ==
    /\ wf = "clarify" /\ pc = "done" /\ outcome = "ok" /\ Ran("save")
    /\ fs # pre
    /\ fs.dirs = pre.dirs
    /\ Cardinality(fs.dirs) = 1

\* C17: once the error field of the state is set, no later step of that
\* invocation changes the state, calls the Model Gateway or writes to the
\* store: the invocation ends with that error.
C17_ErrorIsFinal ==
    [][ st.error # None /\ runs' = runs =>
            /\ st' = st
            /\ fs' = fs
            /\ gatewayCalls' = gatewayCalls
            /\ gatewayLog' = gatewayLog ]_vars

C17_Witness ==
    /\ wf = "clarify" /\ pc = "done"
    /\ st.error = <<"No answers provided to update specification">>
    /\ steps = <<"load", "analyze", "update">>
    /\ gatewayCalls = 1
    /\ fs = pre

\* C18: when a Model Gateway call fails, the invocation ends there: the call
\* is not made again and the store is as it was before the invocation.
C18_GatewayFailureIsFatal ==
    \A i \in 1..Len(gatewayLog) :
        gatewayLog[i].failed =>
            /\ i = Len(gatewayLog)
            /\ gatewayCalls = i
            /\ pc = "done"
            /\ outcome = "gateway_error"
            /\ fs = pre
            /\ steps[Len(steps)] = gatewayLog[i].node

C18_Witness ==
    /\ wf = "clarify"
    /\ Len(gatewayLog) = 2
    /\ gatewayLog[2].failed /\ gatewayLog[2].node = "update"
    /\ pre.files # {}

C18_WitnessSpecify ==
    /\ wf = "specify"
    /\ Len(gatewayLog) = 1
    /\ gatewayLog[1].failed
    /\ fs.dirs = {}

(***************************************************************************)
(* Properties of the Clarify pipeline                                      *)
(***************************************************************************)
NoQuestions == wf = "clarify" /\ ~st.questions.none /\ Len(st.questions.value) = 0

\* C19: when analyze yields an empty question list, Clarify ends without
\* error, update and save never run, the store is as it was and the Model
\* Gateway was called once, with or without an answer map.
C19_NoQuestionsEnds ==
    NoQuestions =>
        /\ pc = "done"
        /\ st.error = None
        /\ outcome = "ok"
        /\ steps = <<"load", "analyze">>
        /\ gatewayCalls = 1
        /\ fs = pre

C19_Witness ==
    /\ NoQuestions
    /\ ~st.answers.none /\ DOMAIN st.answers.value # {}
    /\ gatewayLog[1].reply[1] = "<fence>json"

\* the text is a JSON object that carries a questions array
DecodesToQuestions(text) ==
    /\ Len(text) = 1
    /\ text[1] \in {"{\"questions\": []}",
                    "{\"questions\": [{\"id\": 1, ...}, {\"id\": 2, ...}]}",
                    "{\"questions\": [{\"id\": 1, ...}, ..., {\"id\": 6, ...}]}"}

\* C20: whenever the text extracted from the analyze response is not a JSON
\* object carrying a questions array, Clarify ends with a parse error in
\* the error field and runs neither update nor save.
C20_UndecodableIsParseError ==
    /\ wf = "clarify" /\ pc = "done"
    /\ Len(gatewayLog) >= 1
    /\ gatewayLog[1].node = "analyze" /\ ~gatewayLog[1].failed
    /\ ~DecodesToQuestions(extract_json(gatewayLog[1].reply))
    => /\ st.error # None
       /\ st.error[1] = "Failed to parse questions from Claude response: "
       /\ ~Ran("update") /\ ~Ran("save")

\* the ids of the questions of the document the reply carries, in its order
ProducedIds(reply) ==
    IF \E i \in 1..Len(reply) :
          reply[i] = "{\"questions\": [{\"id\": 1, ...}, {\"id\": 2, ...}]}"
    THEN <<1, 2>>
    ELSE IF \E i \in 1..Len(reply) :
          reply[i] = "{\"questions\": [{\"id\": 1, ...}, ..., {\"id\": 6, ...}]}"
    THEN <<1, 2, 3, 4, 5, 6>>
    ELSE <<>>

QuestionIds(questions) == [i \in 1..Len(questions) |-> questions[i].id]

\* C21: a Clarify invocation without an answer map never runs update or
\* save and writes nothing; when it succeeds it ended after analyze and
\* returns the questions in the order the Gateway gave them.
C21_NoAnswersNoWrite ==
    wf = "clarify" /\ st.answers.none =>
        /\ pc \notin {"update", "save"}
        /\ ~Ran("update") /\ ~Ran("save")
        /\ fs = pre
        /\ st.updated_spec = <<>>
        /\ pc = "done" /\ outcome = "ok" =>
              /\ steps = <<"load", "analyze">>
              /\ ~st.questions.none
              /\ QuestionIds(st.questions.value) = ProducedIds(gatewayLog[1].reply)

C21_Witness ==
    /\ wf = "clarify" /\ st.answers.none
    /\ pc = "done" /\ outcome = "ok"
    /\ QuestionIds(st.questions.value) = <<1, 2>>
    /\ pre.files # {}

\* the positions of the questions whose id is a key of the answer map
Answered(questions, answers) ==
    { i \in 1..Len(questions) : questions[i].id \in DOMAIN answers }

\* the k-th of a set of positions, in increasing order
Nth(positions, k) ==
    CHOOSE i \in positions : Cardinality({ j \in positions : j < i }) = k - 1

\* C22: the Q&A pair list handed to the update prompt has exactly one pair
\* for each question whose id is a key of the answer map, in question
\* order, with that question's text and the mapped answer; other questions
\* are dropped and map entries that match no question are ignored.
C22_PairsAreAnsweredQuestions ==
    wf = "clarify" =>
        \A c \in 1..Len(gatewayLog) :
            gatewayLog[c].node = "update" =>
                LET questions == st.questions.value
                    answers   == st.answers.value
                    positions == Answered(questions, answers)
                    pairs     == gatewayLog[c].pairs
                IN  /\ Len(pairs) = Cardinality(positions)
                    /\ \A k \in 1..Len(pairs) :
                          /\ pairs[k].id = questions[Nth(positions, k)].id
                          /\ pairs[k].question = questions[Nth(positions, k)].question
                          /\ pairs[k].answer = answers[pairs[k].id]
                          /\ DOMAIN pairs[k] = {"id", "question", "answer"}

C22_Witness ==
    /\ wf = "clarify" /\ Len(gatewayLog) = 2
    /\ gatewayLog[2].node = "update"
    /\ Len(st.questions.value) = 2
    /\ DOMAIN st.answers.value = {2, 99}
    /\ Len(gatewayLog[2].pairs) = 1
    /\ gatewayLog[2].pairs[1].id = 2

C22_WitnessTwoOfSix ==
    /\ wf = "clarify" /\ Len(gatewayLog) = 2
    /\ Len(st.questions.value) = 6
    /\ Len(gatewayLog[2].pairs) = 2

\* C23: whenever an answer map was supplied, analyze produced at least one
\* question and no key of the map is the id of a question (a map without
\* entries included), Clarify ends with the validation error, the update
\* call to the Model Gateway is not made and the store is unchanged.
C23_EmptyPairsIsValidationError ==
    /\ wf = "clarify" /\ pc = "done"
    /\ ~st.answers.none
    /\ ~st.questions.none /\ Len(st.questions.value) >= 1
    /\ Answered(st.questions.value, st.answers.value) = {}
    => /\ st.error = <<"No answers provided to update specification">>
       /\ gatewayCalls = 1
       /\ fs = pre

\* C24: a Clarify invocation that was given an answer map and ends without
\* an error has run save, and specification.md holds the text of the update
\* step.
C24_AnswersMeanSaved ==
    wf = "clarify" /\ pc = "done" /\ outcome = "ok" /\ ~st.answers.none =>
        /\ Ran("update") /\ Ran("save")
        /\ ContentOf(fs, st.spec_path, "specification.md") = {st.updated_spec}

\* the text without the whitespace around it
Trimmed(t) ==
    LET solid == { i \in 1..Len(t) : t[i] \notin {" ", "\t", "\n", "\r"} }
    IN  IF solid = {} THEN <<>>
        ELSE SubSeq(t, CHOOSE i \in solid : \A j \in solid : i <= j,
                       CHOOSE i \in solid : \A j \in solid : i >= j)

\* the text without the whitespace around it and without the one code fence
\* that wraps it
Unwrapped(t) ==
    LET u == Trimmed(t)
    IN  IF /\ Len(u) >= 2
           /\ u[1] \in {"<fence>", "<fence>markdown"}
           /\ u[Len(u)] = "<fence>"
        THEN Trimmed(SubSeq(u, 2, Len(u) - 1))
        ELSE u

ClarifySaved == wf = "clarify" /\ pc = "done" /\ Ran("save") /\ outcome = "ok"

\* C25: when Clarify reaches save it overwrites specification.md of the
\* directory load read it from, the latest one, with the update response
\* without its wrapping code fence and surrounding whitespace; it creates no
\* directory and leaves every other file as it was.
C25_ClarifySaveFrame ==
    ClarifySaved =>
        /\ st.spec_path \in LatestDirs(pre)
        /\ ContentOf(pre, st.spec_path, "specification.md") = {st.specification}
        /\ ContentOf(fs, st.spec_path, "specification.md")
              = {Unwrapped(gatewayLog[2].reply)}
        /\ fs.root = pre.root /\ fs.dirs = pre.dirs /\ fs.plain = pre.plain
        /\ { x \in fs.files : ~(x.dir = st.spec_path /\ x.name = "specification.md") }
              = { x \in pre.files : ~(x.dir = st.spec_path /\ x.name = "specification.md") }

\* C26: the question sequence analyze produces, and Clarify returns, has at
\* most 5 elements whatever the Gateway replied.
C26_AtMostFiveQuestions ==
    wf = "clarify" /\ ~st.questions.none => Len(st.questions.value) <= 5

(***************************************************************************)
(* Properties of concurrent Specify invocations                            *)
(***************************************************************************)
\* both have listed the store, and neither listing shows the other's
\* directory: both scanned before either created
Interleaved ==
    /\ \A p \in Procs : race.procs[p].pc # "scan"
    /\ race.procs[1].listing = pre.dirs
    /\ race.procs[2].listing = pre.dirs

BothSaved == \A p \in Procs : race.procs[p].pc = "done"

SlugPart(name) == SubSeq(name, LeadingDigitCount(name) + 2, Len(name))

\* C27: when two Specify invocations both list the store before either
\* creates its directory, both compute the same number N. With different
\* slugs the store ends with two directories numbered N; with equal slugs
\* both write the same specification.md, the later write is what the file
\* holds, and neither invocation is told.
C27_NumberingRace ==
    race # NoRace /\ Interleaved =>
        LET a == race.procs[1]
            b == race.procs[2]
        IN  /\ a.spec_number = b.spec_number
            /\ \A d \in pre.dirs : HasLeadingInteger(d) => LeadingInteger(d) < a.spec_number
            /\ a.pc # "raised" /\ b.pc # "raised"
            /\ BothSaved /\ SlugPart(a.dir_name) # SlugPart(b.dir_name) =>
                  /\ a.dir_name # b.dir_name
                  /\ {a.dir_name, b.dir_name} \subseteq fs.dirs
                  /\ LeadingInteger(a.dir_name) = LeadingInteger(b.dir_name)
            /\ BothSaved /\ SlugPart(a.dir_name) = SlugPart(b.dir_name) =>
                  /\ a.dir_name = b.dir_name
                  /\ fs.dirs = pre.dirs \cup {a.dir_name}
                  /\ ContentOf(fs, a.dir_name, "specification.md")
                        = {race.procs[race.writes[2]].content}

C27_Witness ==
    /\ race # NoRace /\ Interleaved /\ BothSaved
    /\ race.procs[1].feature_name # race.procs[2].feature_name
    /\ race.procs[1].dir_name = race.procs[2].dir_name
    /\ race.procs[1].content # race.procs[2].content
    /\ race.writes = <<2, 1>>
    /\ ContentOf(fs, race.procs[1].dir_name, "specification.md") = {race.procs[1].content}
    /\ pre.dirs # {}

C27_WitnessTwoDirectories ==
    /\ race # NoRace /\ Interleaved /\ BothSaved
    /\ race.procs[1].dir_name # race.procs[2].dir_name
    /\ race.procs[1].spec_number = 2 /\ race.procs[2].spec_number = 2

(***************************************************************************)
(* Termination                                                             *)
(***************************************************************************)
\* the nodes of a pipeline in the order of its graph
NodeOrder ==
    CASE wf = "specify" -> <<"analyze", "generate", "save">>
      [] wf = "plan"    -> <<"load", "generate", "save">>
      [] wf = "tasks"   -> <<"load", "generate", "save">>
      [] wf = "clarify" -> <<"load", "analyze", "update", "save">>
      [] OTHER          -> <<>>

\* the nodes executed so far are the first nodes of the pipeline, each once,
\* and the pipeline stands at the next one or has ended
InOrder ==
    /\ Len(steps) <= Len(NodeOrder)
    /\ steps = SubSeq(NodeOrder, 1, Len(steps))
    /\ pc \in {"idle", "done"} \/
          (Len(steps) < Len(NodeOrder) /\ pc = NodeOrder[Len(steps) + 1])

\* C28: every invocation ends, a Gateway call returning or failing: the
\* nodes of the pipeline run in order, each at most once, and the pipeline
\* reaches its end.
C28_Terminates ==
    /\ []InOrder
    /\ (pc \notin {"idle", "done"}) ~> (pc = "done")

C28_Witness ==
    /\ wf = "clarify" /\ pc = "done"
    /\ steps = <<"load", "analyze", "update", "save">>

(***************************************************************************)
(* The directory a Specify run created is the latest one                   *)
(***************************************************************************)
\* the files of the store an invocation has written or replaced so far
Written == fs.files \ pre.files

\* the next invocation starts from the store a successful Specify left and
\* finds the directory of that run as the only latest one
FollowsSpecify ==
    SpecifySucceeded /\ runs' = runs + 1 =>
        /\ pre' = fs
        /\ LatestDirs(pre') = {st.spec_path}

\* C29: after a successful Specify run on a store made by sequential
\* invocations, find_latest_spec returns the directory the run created and
\* nothing else; a following Plan, Tasks or Clarify starts from that store,
\* loads the directory that is the latest there (Tasks only once the
\* directory holds a plan) and writes only into it.
C29_LatestIsNewDirectory ==
    /\ [](SpecifySucceeded =>
            /\ st.spec_path \in fs.dirs \ pre.dirs
            /\ find_latest_spec(fs) = {st.spec_path})
    /\ [][FollowsSpecify]_vars
    /\ [](wf \in {"plan", "tasks", "clarify"} /\ Ran("load") /\ pre.dirs # {} =>
            /\ wf # "tasks" => st.spec_path # None
            /\ st.spec_path # None => LatestDirs(pre) = {st.spec_path}
            /\ \A x \in Written : LatestDirs(pre) = {x.dir})

C29_Witness ==
    /\ SpecifySucceeded
    /\ Cardinality(pre.dirs) >= 1
    /\ Cardinality(fs.dirs) >= 2

C29_WitnessPlanInNewDirectory ==
    /\ PlanSucceeded
    /\ Cardinality(pre.dirs) >= 2
    /\ Written # {}

(***************************************************************************)
(* Plan, Tasks and Clarify work in the latest directory alone              *)
(***************************************************************************)
\* the files of a store outside one directory
Outside(f, dir) == { x \in f.files : x.dir # dir }

\* a lower-numbered directory holds plan.md, the latest one does not
OnlyOlderPlan(f) ==
    \E new \in LatestDirs(f) :
        /\ Holds(f, new, "specification.md")
        /\ ~Holds(f, new, "plan.md")
        /\ \E old \in f.dirs \ LatestDirs(f) : Holds(f, old, "plan.md")

\* C30: Plan, Tasks and Clarify work in the directory find_latest_spec
\* returned when they loaded: the texts they hold were read there, the files
\* of every other directory stay as they were, and Tasks on a latest
\* directory without plan.md ends with the plan-not-found error naming that
\* directory, a plan.md in an older directory or not, until a Plan run has
\* saved plan.md there.
C30_LatestDirectoryOnly ==
    wf \in {"plan", "tasks", "clarify"} =>
        /\ st.spec_path \in LatestDirs(pre) \cup {None}
        /\ fs.dirs = pre.dirs
        /\ Outside(fs, st.spec_path) = Outside(pre, st.spec_path)
        /\ st.spec_path = None => fs = pre
        /\ st.spec_path # None =>
              st.specification \in ContentOf(pre, st.spec_path, "specification.md")
        /\ wf = "tasks" /\ st.spec_path # None =>
              st.plan \in ContentOf(pre, st.spec_path, "plan.md")
        /\ TasksEnded /\ (\E d \in LatestDirs(pre) :
                             Holds(pre, d, "specification.md") /\ ~Holds(pre, d, "plan.md")) =>
              /\ outcome = "error"
              /\ st.error[1] = "Plan file not found at "
              /\ \E d \in LatestDirs(pre) : SubSeq(st.error, 2, Len(d) + 1) = d
              /\ fs = pre
        /\ TasksEnded /\ (\E d \in LatestDirs(pre) :
                             Holds(pre, d, "specification.md") /\ Holds(pre, d, "plan.md")) =>
              Ran("generate")

C30_Witness ==
    /\ TasksEnded
    /\ OnlyOlderPlan(pre)
    /\ outcome = "error"

C30_WitnessAfterPlan ==
    /\ TasksEnded /\ outcome = "ok"
    /\ \E d \in fs.dirs \ LatestDirs(fs) : Holds(fs, d, "plan.md")
    /\ runs = 3

(***************************************************************************)
(* The clarify command                                                     *)
(***************************************************************************)
\* the text the document a reply carries gives the question of an id
ProducedText(reply, id) ==
    IF \E i \in 1..Len(reply) :
          reply[i] = "{\"questions\": [{\"id\": 1, ...}, {\"id\": 2, ...}]}"
    THEN (IF id = 1 THEN "Which formats?" ELSE "Which fields?")
    ELSE "Which limit?"

\* the second run of the command, which carries the collected answers
SecondRun == wf = "clarify" /\ cli.pass \in {"second", "ended"} /\ ~st.answers.none

\* C31: a Clarify invocation with answers starts anew: it has no question
\* list until its own analyze node has made its Gateway call on the
\* specification it loaded itself, and the pairs it hands to the update
\* prompt carry, for each answered id, the question text of that second
\* analysis and the collected answer, whatever the command had shown.
C31_AnswersMatchFreshAnalysis ==
    SecondRun =>
        /\ st.answers = cli.answers
        /\ pc \in {"load", "analyze"} => st.questions.none /\ gatewayLog = <<>>
        /\ Ran("analyze") => steps[1] = "load" /\ steps[2] = "analyze"
        /\ Ran("update") =>
              /\ Len(gatewayLog) >= 1
              /\ gatewayLog[1].node = "analyze"
              /\ gatewayLog[1].specification
                    \in ContentOf(pre, st.spec_path, "specification.md")
        /\ \A c \in 1..Len(gatewayLog) :
              gatewayLog[c].node = "update" =>
                  /\ c = 2
                  /\ \A k \in 1..Len(gatewayLog[c].pairs) :
                        LET pair == gatewayLog[c].pairs[k]
                        IN  /\ pair.id \in DOMAIN cli.answers.value
                            /\ pair.answer = cli.answers.value[pair.id]
                            /\ pair.question = ProducedText(gatewayLog[1].reply, pair.id)

C31_Witness ==
    /\ SecondRun
    /\ Len(gatewayLog) = 2 /\ gatewayLog[2].node = "update"
    /\ cli.presented[1].id = 1 /\ cli.presented[1].question = "Which formats?"
    /\ gatewayLog[2].pairs[1].id = 1
    /\ gatewayLog[2].pairs[1].question = "Which limit?"

\* the first run of the command has ended well and returned questions
FirstRunAsks ==
    /\ cli.pass = "first" /\ wf = "clarify" /\ pc = "done"
    /\ outcome = "ok" /\ st.error = None
    /\ ~st.questions.none /\ Len(st.questions.value) >= 1

\* the step that starts the second run
SecondRunStarts == cli.pass # "second" /\ cli'.pass = "second"

\* the second run starts from a first run that asked, with an answer for
\* each id that run returned
StartsAfterQuestions ==
    SecondRunStarts =>
        /\ FirstRunAsks
        /\ st.answers.none
        /\ ~st'.answers.none
        /\ \A i \in 1..Len(st.questions.value) :
              st.questions.value[i].id \in DOMAIN st'.answers.value
        /\ cli'.presented = st.questions.value
        /\ pc' = "load" /\ steps' = <<>> /\ runs' = runs + 1
        /\ fs' = fs

\* a first run that ended otherwise is the end of the command
EndsWithoutQuestions ==
    cli.pass = "first" /\ pc = "done" /\ ~FirstRunAsks =>
        /\ cli'.pass \in {"first", "ended"}
        /\ runs' = runs
        /\ fs' = fs

\* C32: the clarify command starts its second run only from a first run that
\* ended without error and returned at least one question, and passes it an
\* answer for every question id of that run; a first run that reports an
\* error or no question ends the command: no second run, no file written.
C32_SecondRunOnlyAfterQuestions ==
    /\ [][StartsAfterQuestions]_vars
    /\ [][EndsWithoutQuestions]_vars
    /\ [](cli.pass = "first" => fs = pre /\ st.answers.none)
    /\ [](cli.pass = "ended" /\ cli.answers.none =>
             /\ fs = pre
             /\ cli.printed \in {"error", "clear"}
             /\ ~Ran("update") /\ ~Ran("save"))
    /\ [](cli.pass = "second" => cli.presented # <<>>)

C32_Witness ==
    /\ cli.pass = "second" /\ pc = "save"
    /\ Len(cli.presented) = 6
    /\ DOMAIN cli.answers.value = 1..6

C32_WitnessNoSecondRun ==
    /\ cli.pass = "ended" /\ cli.printed = "clear"
    /\ runs = 1 /\ pre.files # {}

====
